---- MODULE Spec2Model ----
(***************************************************************************)
(* Model of the ingestion engine of dfs-rag: the manifest rows the         *)
(* ingestion repository reads and writes, the checkpoint file, and the     *)
(* IngestionRunner / IngestionProcessor control flow                       *)
(* (src/ingestion/ingestion/{main,processor,repository,checkpoint}.py).    *)
(*                                                                         *)
(* The manifest is a function from file_path to a row.  Paths are the      *)
(* integers 1..n, and their integer order is the ORDER BY file_path order. *)
(* process_batch is split at its loops (filter, mark, verify, upload       *)
(* attempts, poll, accounting) so that a KeyboardInterrupt or a signal can *)
(* arrive between them.                                                    *)
(***************************************************************************)
EXTENDS Integers, Sequences, FiniteSets, TLC

\* ---- bounds of the model ------------------------------------------------
MaxRows == 2
MaxRuns == 2
MaxAttempts == 3

\* the resume scenario: a crash after batch 3 of 5
CrashAfterBatch == 3
TotalBatches == 5
MaxRequests == 3
MaxEntries == 3
MaxBatch == 2
MaxScans == 2
\* self.poll_timeout and the longest GET of /v1/status, in poll intervals
PollTimeout == 2
MaxTook == 1

\* Settings.max_retries: Field(default=3, ge=1, le=10)
max_retries_default == 3

\* Settings.retry_delay, in units of its default of 1.0 second
retry_delay == 1

\* bootstrap Settings.max_retries: Field(default=3, ge=1, le=10)
walker_max_retries_default == 3
walker_max_retries_min == 1

\* poll_task_status: "if retries > 10"
poll_retries_limit == 10

\* ---- values --------------------------------------------------------------
NULL == "NULL"

\* what stands for the exit code of a process that has not exited; exit codes
\* are 0..255
NoExitCode == -1
NOW == "CURRENT_TIMESTAMP"

DiscoveryStatuses == {"discovered", "acl_failed"}

\* base name of a path: paths 2k and 2k+1 lie in different directories and
\* share their base name
FileName(p) == p \div 2

NoCheckpoint == [exists |-> FALSE]

VARIABLES
    manifest,        \* file_path -> row of the manifest table
    checkpoint_file, \* content of the checkpoint JSON file, or NoCheckpoint
    settings,        \* the Settings the runner was started with
    existing_docs,   \* IngestionProcessor.existing_docs
    pc,              \* position of the ingestion process
    exit_code,       \* exit code of the last ingestion process, NoExitCode while running
    current_offset,  \* run(): current_offset
    current_batch,   \* run(): current_batch
    stats,           \* IngestionStats
    files,           \* run(): files, the batch fetched
    files_to_upload, \* process_batch(): files_to_upload
    existing_files,  \* process_batch(): existing_files
    successful,      \* process_batch(): successful
    failed,          \* process_batch(): failed
    attempt,         \* _upload_with_retry(): attempt
    run_no,          \* number of ingestion processes started so far
    hist,            \* history of the runs, for stating properties only
    pm,              \* ProcessManager: _lock, the two ProcessStatus, the two processes
    os_procs,        \* the engine subprocesses alive in the operating system
    requests,        \* the start/stop requests the API has received
    tree,            \* the directory tree the bootstrap engine scans
    walk,            \* DirectoryWalker: the stack of _walk_recursive frames
    boot,            \* BatchProcessor and bootstrap process state
    emitted,         \* the records the walker has yielded so far
    polling,         \* poll_task_status(): retries, state and the timeout test
    extraction       \* ACLExtractor.extract: the call in progress and its child process

ingestionVars == <<manifest, checkpoint_file, settings, existing_docs, pc, exit_code,
                   current_offset, current_batch, stats, files, files_to_upload,
                   existing_files, successful, failed, attempt, run_no, hist>>

controlVars == <<pm, os_procs, requests>>

bootstrapVars == <<tree, walk, boot, emitted>>

callVars == <<polling, extraction>>

vars == <<ingestionVars, controlVars, bootstrapVars, callVars>>

Paths == DOMAIN manifest

\* the base names the server's document list may hold
Names == {FileName(p) : p \in Paths}

Range(s) == {s[i] : i \in 1..Len(s)}

\* ---- IngestionStats -------------------------------------------------------
IngestionStats ==
    [total_processed |-> 0, total_failed |-> 0, total_completed |-> 0,
     total_skipped |-> 0, batch_count |-> 0]

\* ---- repository -----------------------------------------------------------
\* the WHERE clause without its ingestion_status condition
PendingWhere_AnyIngestionStatus(row) ==
    row.status = "discovered"

\* WHERE clause of get_pending_files
PendingWhere(row) ==
    /\ row.status = "discovered"
    /\ row.ingestion_status \in {NULL, "pending", "failed"}

RECURSIVE OrderByPath(_)
OrderByPath(S) ==
    IF S = {} THEN <<>>
    ELSE LET x == CHOOSE x \in S : \A y \in S : x <= y
         IN  <<x>> \o OrderByPath(S \ {x})

LimitOffset(s, limit, offset) ==
    IF offset >= Len(s) THEN <<>>
    ELSE SubSeq(s, offset + 1, IF offset + limit <= Len(s) THEN offset + limit ELSE Len(s))

\* a query without its OFFSET
get_pending_files_NoOffset(m, batch_size, offset) ==
    LimitOffset(OrderByPath({p \in DOMAIN m : PendingWhere(m[p])}), batch_size, 0)

get_pending_files(m, batch_size, offset) ==
    LimitOffset(OrderByPath({p \in DOMAIN m : PendingWhere(m[p])}), batch_size, offset)

update_ingestion_status(m, file_path, status, error) ==
    [m EXCEPT ![file_path] =
        [@ EXCEPT !.ingestion_status = status,
                  !.ingestion_attempts = @ + 1,
                  !.ingestion_error = error,
                  !.ingested_at = IF status = "completed" THEN NOW ELSE @]]

\* a loop "for file_record in records: update_ingestion_status(path, status, error)"
RECURSIVE UpdateEach(_, _, _, _)
UpdateEach(m, records, status, error) ==
    IF records = <<>> THEN m
    ELSE UpdateEach(update_ingestion_status(m, Head(records), status, error),
                    Tail(records), status, error)

\* ---- checkpoint -----------------------------------------------------------
CheckpointData(offset, batch_num, total_processed, total_failed) ==
    [exists |-> TRUE, offset |-> offset, batch_num |-> batch_num,
     total_processed |-> total_processed, total_failed |-> total_failed]

\* CheckpointManager.save with the values run() passes at all three call sites
SaveCheckpoint ==
    CheckpointData(current_offset, current_batch,
                   stats.total_processed, stats.total_failed)

\* ---- ProcessManager.__init__ --------------------------------------------------
Engines == {"bootstrap", "ingestion"}

\* None where a request number or a process id is expected (both start at 1)
None == 0

\* ACLResult() with the defaults of the dataclass
NoResult == [raw_acl |-> NULL, captured |-> FALSE, method |-> "unknown"]

\* poll_task_status before its loop: retries = 1, no state read yet
NotPolling ==
    [retries |-> 1, got |-> NULL, state |-> NULL, timed_out |-> FALSE, elapsed |-> 0,
     failed_documents |-> {}]

\* no poll and no extraction in progress
InitCalls ==
    /\ polling = NotPolling
    /\ extraction = [pc |-> "idle", extractor |-> NULL, child |-> "none",
                     returncode |-> NULL, result |-> NoResult]

InitControl ==
    /\ pm = [lock |-> None,
             running |-> [e \in Engines |-> FALSE],
             process |-> [e \in Engines |-> None],
             job_id |-> [e \in Engines |-> None],
             monitor |-> "sleep",
             events |-> <<>>,
             gone |-> {}]
    /\ os_procs = {}
    /\ requests = <<>>

\* ---- the bootstrap engine before it is started ------------------------------
\* BootstrapStats()
BootstrapStats ==
    [total_discovered |-> 0, total_added |-> 0, total_skipped |-> 0,
     acl_captured |-> 0, acl_failed |-> 0, permission_errors |-> 0,
     other_errors |-> 0]

\* no bulk_upsert call made yet
NoCall == [made |-> FALSE]

InitBootstrap ==
    /\ tree = NULL
    /\ walk = <<>>
    /\ boot = [pc |-> "idle", exit_code |-> NULL, clock |-> 0, _batch |-> <<>>,
               stats |-> BootstrapStats, call |-> NoCall, written |-> <<>>]
    /\ emitted = <<>>

\* ---- initial state ---------------------------------------------------------
\* a row as the bootstrap INSERT leaves it (schema defaults for the ingestion columns)
FreshRow(status) ==
    [status |-> status, is_directory |-> FALSE,
     ingestion_status |-> "pending", ingestion_attempts |-> 0,
     ingestion_error |-> NULL, ingested_at |-> NULL]

SettingsSpace ==
    [batch_size : 1..MaxRows, checkpoint_interval : 1..MaxRows,
     max_retries : {max_retries_default}, continue_on_error : BOOLEAN,
     resume : {FALSE}]

NoRun ==
    [start_offset |-> 0, start_batch |-> 0, start_manifest |-> <<>>,
     loaded |-> NoCheckpoint, returned |-> {},
     uploaded |-> FALSE, batches_done |-> 0, loop_exit |-> NULL,
     on_disk |-> {}, upload_arg |-> {}, outcome |-> NULL,
     calls |-> 0, sleeps |-> <<>>,
     end |-> NULL, prev_end |-> NULL]

\* the history of the batch in hand is dropped with the batch
ClearBatch(h) ==
    [h EXCEPT !.on_disk = {}, !.upload_arg = {}, !.outcome = NULL,
              !.calls = 0, !.sleeps = <<>>]

\* the ingestion engine not started: no checkpoint, nothing uploaded
InitIngestion ==
    /\ checkpoint_file = NoCheckpoint
    /\ existing_docs = {}
    /\ pc = "idle"
    /\ exit_code = NoExitCode
    /\ current_offset = 0
    /\ current_batch = 0
    /\ stats = IngestionStats
    /\ files = <<>>
    /\ files_to_upload = <<>>
    /\ existing_files = <<>>
    /\ successful = <<>>
    /\ failed = <<>>
    /\ attempt = 0
    /\ run_no = 0
    /\ hist = NoRun

InitLocals ==
    /\ InitIngestion
    /\ InitControl
    /\ InitCalls
    /\ InitBootstrap

Init ==
    /\ manifest \in [1..MaxRows -> {FreshRow(st) : st \in DiscoveryStatuses}]
    /\ settings \in SettingsSpace
    /\ InitLocals

Running == pc \in {"fetch", "filter", "mark", "verify", "upload", "poll", "account", "final"}

\* ---- IngestionRunner.run up to the call of processor.run -------------------
\* a runner that loads the checkpoint and still starts at offset 0
ResumeOffset_Ignored(resume, ck) == 0

\* checkpoint.get("offset", 0), checkpoint.get("batch_num", 0) when resuming
ResumeOffset(resume, ck) == IF resume /\ ck.exists THEN ck.offset ELSE 0
ResumeBatch(resume, ck) == IF resume /\ ck.exists THEN ck.batch_num ELSE 0

RunnerStart(resume, docs) ==
    /\ run_no' = run_no + 1
    /\ settings' = [settings EXCEPT !.resume = resume]
    /\ existing_docs' = docs
    /\ current_offset' = ResumeOffset(resume, checkpoint_file)
    /\ current_batch' = ResumeBatch(resume, checkpoint_file)
    /\ stats' = IngestionStats
    /\ pc' = "fetch"
    /\ exit_code' = NoExitCode
    /\ hist' = [start_offset |-> ResumeOffset(resume, checkpoint_file),
                start_batch |-> ResumeBatch(resume, checkpoint_file),
                start_manifest |-> manifest,
                loaded |-> IF resume THEN checkpoint_file ELSE NoCheckpoint,
                returned |-> {},
                uploaded |-> FALSE, batches_done |-> 0, loop_exit |-> NULL,
                on_disk |-> {}, upload_arg |-> {}, outcome |-> NULL,
                calls |-> 0, sleeps |-> <<>>,
                end |-> NULL, prev_end |-> hist.end]
    /\ files' = <<>> /\ files_to_upload' = <<>> /\ existing_files' = <<>>
    /\ successful' = <<>> /\ failed' = <<>> /\ attempt' = 0
    /\ UNCHANGED <<manifest, checkpoint_file>>

\* the first start of the ingestion process on a manifest
StartRun(resume, docs) ==
    /\ pc = "idle"
    /\ RunnerStart(resume, docs)

\* a later start, after the previous process has exited in whatever way
Restart(resume, docs) ==
    /\ pc = "exited"
    /\ run_no < MaxRuns
    /\ RunnerStart(resume, docs)

\* ---- IngestionProcessor.run: top of the loop -------------------------------
Fetch ==
    /\ pc = "fetch"
    /\ LET got == get_pending_files(manifest, settings.batch_size, current_offset)
       IN  /\ files' = got
           /\ IF got = <<>>
              THEN /\ pc' = "final"
                   /\ hist' = [hist EXCEPT !.loop_exit = "empty"]
                   /\ UNCHANGED <<current_batch, stats>>
              ELSE /\ pc' = "filter"
                   /\ current_batch' = current_batch + 1
                   /\ stats' = [stats EXCEPT !.batch_count = @ + 1]
                   /\ hist' = [hist EXCEPT !.returned = @ \cup Range(got)]
    /\ UNCHANGED <<manifest, checkpoint_file, settings, existing_docs, exit_code,
                   current_offset, files_to_upload, existing_files, successful,
                   failed, attempt, run_no>>

\* ---- IngestionProcessor.process_batch --------------------------------------
\* "Filter out already ingested files": the records skipped, and the rest
SkippedOf(fs, docs) == SelectSeq(fs, LAMBDA p : FileName(p) \in docs)
ToUploadOf(fs, docs) == SelectSeq(fs, LAMBDA p : FileName(p) \notin docs)

ResetBatchLocals ==
    /\ files_to_upload' = <<>>
    /\ existing_files' = <<>>
    /\ attempt' = 0

\* the process is gone: so are the locals of process_batch
ProcessExit(code) ==
    /\ pc' = "exited"
    /\ exit_code' = code
    /\ files' = <<>>
    /\ successful' = <<>>
    /\ failed' = <<>>
    /\ ResetBatchLocals

Filter ==
    /\ pc = "filter"
    /\ LET skipped == SkippedOf(files, existing_docs)
           rest == ToUploadOf(files, existing_docs)
       IN  /\ manifest' = UpdateEach(manifest, skipped, "completed", NULL)
           /\ stats' = [stats EXCEPT !.total_skipped = @ + Len(skipped)]
           /\ successful' = skipped
           /\ failed' = <<>>
           /\ files_to_upload' = rest
           /\ pc' = IF rest = <<>> THEN "account" ELSE "mark"
    /\ UNCHANGED <<checkpoint_file, settings, existing_docs, exit_code, current_offset,
                   current_batch, files, existing_files, attempt, run_no, hist>>

\* "Mark files as ingesting"
Mark ==
    /\ pc = "mark"
    /\ manifest' = UpdateEach(manifest, files_to_upload, "ingesting", NULL)
    /\ pc' = "verify"
    /\ UNCHANGED <<checkpoint_file, settings, existing_docs, exit_code, current_offset,
                   current_batch, stats, files, files_to_upload, existing_files,
                   successful, failed, attempt, run_no, hist>>

FailedEntries(records, error) == [i \in 1..Len(records) |-> <<records[i], error>>]

\* "Verify files exist": on_disk is what Path.exists() answers for the batch
Verify(on_disk) ==
    /\ pc = "verify"
    /\ LET present == SelectSeq(files_to_upload, LAMBDA p : p \in on_disk)
           missing == SelectSeq(files_to_upload, LAMBDA p : p \notin on_disk)
       IN  /\ manifest' = UpdateEach(manifest, missing, "failed", "File not found on disk")
           /\ failed' = failed \o FailedEntries(missing, "File not found")
           /\ existing_files' = present
           /\ pc' = IF present = <<>> THEN "account" ELSE "upload"
    /\ attempt' = 0
    /\ hist' = [hist EXCEPT !.on_disk = on_disk]
    /\ UNCHANGED <<checkpoint_file, settings, existing_docs, exit_code, current_offset,
                   current_batch, stats, files, files_to_upload, successful, run_no>>

\* "Mark all as completed" (lines 157-162)
MarkAllCompleted ==
    /\ manifest' = UpdateEach(manifest, existing_files, "completed", NULL)
    /\ successful' = successful \o existing_files
    /\ UNCHANGED failed

\* the except branch recording the failures without writing them to the manifest
MarkAllFailed_NoUpdate(error) ==
    /\ manifest' = manifest
    /\ failed' = failed \o FailedEntries(existing_files, error)
    /\ UNCHANGED successful

\* "except IngestionError as e: Mark all as failed" (lines 166-176)
MarkAllFailed(error) ==
    /\ manifest' = UpdateEach(manifest, existing_files, "failed", error)
    /\ failed' = failed \o FailedEntries(existing_files, error)
    /\ UNCHANGED successful

\* str(e) of the IngestionError caught by process_batch
StrE == "IngestionError"

UploadOutcomes == {"task_id", "no_task_id", "IngestionError", "OSError"}

\* a retry loop that sleeps after every failed attempt, the last one included
Backoff_AfterEvery(k, max_retries) == TRUE

\* "if attempt < self.settings.max_retries - 1" (line 213)
Backoff(k, max_retries) == k < max_retries - 1

\* "delay = self.settings.retry_delay * (2 ** attempt)" (line 215)
Delay(k) == retry_delay * 2^k

\* one attempt of _upload_with_retry, the sleep that follows it, and what
\* process_batch does with its result; hist.calls counts the calls of
\* upload_documents for the batch and hist.sleeps lists the time.sleep calls
UploadAttempt(outcome) ==
    /\ pc = "upload"
    /\ LET h == [hist EXCEPT !.uploaded = TRUE,
                              !.upload_arg = @ \cup Range(existing_files),
                              !.calls = @ + 1,
                              !.sleeps = IF outcome = "IngestionError"
                                            /\ Backoff(attempt, settings.max_retries)
                                         THEN Append(@, Delay(attempt))
                                         ELSE @]
       IN  hist' =
             CASE outcome = "no_task_id" -> [h EXCEPT !.outcome = "success"]
               [] outcome = "IngestionError" /\ ~(attempt < settings.max_retries - 1) ->
                    [h EXCEPT !.outcome = "IngestionError"]
               [] outcome = "OSError" -> ClearBatch([h EXCEPT !.end = "exception"])
               [] OTHER -> h
    /\ CASE outcome = "task_id" ->
              /\ pc' = "poll"
              /\ UNCHANGED <<manifest, successful, failed, attempt, exit_code,
                             files, files_to_upload, existing_files>>
         [] outcome = "no_task_id" ->
              /\ MarkAllCompleted
              /\ pc' = "account"
              /\ UNCHANGED <<attempt, exit_code, files, files_to_upload, existing_files>>
         [] outcome = "IngestionError" /\ attempt < settings.max_retries - 1 ->
              /\ attempt' = attempt + 1
              /\ pc' = "upload"
              /\ UNCHANGED <<manifest, successful, failed, exit_code,
                             files, files_to_upload, existing_files>>
         [] outcome = "IngestionError" /\ ~(attempt < settings.max_retries - 1) ->
              /\ MarkAllFailed(StrE)
              /\ pc' = "account"
              /\ UNCHANGED <<attempt, exit_code, files, files_to_upload, existing_files>>
         [] outcome = "OSError" ->
              \* not an IngestionError: it leaves process_batch and run() and is
              \* caught by the runner's "except Exception": return 1
              /\ ProcessExit(1)
              /\ UNCHANGED manifest
    /\ UNCHANGED <<checkpoint_file, settings, existing_docs, current_offset,
                   current_batch, stats, run_no>>

\* poll_task_status returns the status JSON, or raises IngestionError
PollOutcomes == {"returned", "IngestionError"}

\* client.poll_task_status(task_id) and what process_batch does with its result
Poll(outcome) ==
    /\ pc = "poll"
    /\ IF outcome = "returned"
       THEN MarkAllCompleted
       ELSE MarkAllFailed(StrE)
    /\ pc' = "account"
    /\ hist' = [hist EXCEPT !.outcome = IF outcome = "returned" THEN "success"
                                        ELSE "IngestionError"]
    /\ UNCHANGED <<checkpoint_file, settings, existing_docs, exit_code, current_offset,
                   current_batch, stats, files, files_to_upload, existing_files,
                   attempt, run_no>>

\* ---- IngestionClient.poll_task_status, one GET at a time ----------------------
\* what one requests.get of /v1/status gives: an exception of requests, a body
\* with one of the three states the client knows or with another state, a body
\* that is not JSON, the JSON null, or a JSON array
PollReplies ==
    {"ConnectionError", "FINISHED", "FAILED", "UNKNOWN", "PENDING",
     "not JSON", "null", "array"}

\* state = (status_json or {}).get("state"); a body that response.json()
\* rejects is read as {"state": "UNKNOWN"}
StateOf(reply) ==
    CASE reply = "not JSON" -> "UNKNOWN"
      [] reply = "null" -> NULL
      [] OTHER -> reply

\* a client that takes UNKNOWN for the end of the task
Verdict_UnknownReturns(state, timed_out) ==
    CASE state \in {"FINISHED", "UNKNOWN"} -> "return"
      [] state = "FAILED" -> "raise"
      [] OTHER -> IF timed_out THEN "raise" ELSE "continue"

\* the if statements after the state is read (lines 338-366)
Verdict(state, timed_out) ==
    CASE state = "FINISHED" -> "return"
      [] state \in {"FAILED", "UNKNOWN"} -> "raise"
      [] OTHER -> IF timed_out THEN "raise" ELSE "continue"

\* poll_task_status leaves its loop with IngestionError or with the status JSON
PollEnds(raised) ==
    /\ IF raised THEN MarkAllFailed(StrE) ELSE MarkAllCompleted
    /\ pc' = "account"
    /\ hist' = [hist EXCEPT !.outcome = IF raised THEN "IngestionError" ELSE "success"]
    /\ UNCHANGED <<exit_code, files, files_to_upload, existing_files, attempt>>

PollGoesOn ==
    /\ pc' = "poll"
    /\ UNCHANGED <<manifest, successful, failed, hist, exit_code, files,
                   files_to_upload, existing_files, attempt>>

\* a client that tests the timeout with >= 
TimedOut_AtTimeout(now) == now >= PollTimeout

\* "time.time() - start_time > self.poll_timeout" (line 361), the time in
\* poll intervals
TimedOut(now) == now > PollTimeout

\* one turn of the "while True" of poll_task_status and, when the loop is
\* left, what process_batch does with the result; took is the time the GET
\* took, polling.elapsed the time since start_time, both in poll intervals;
\* a turn that does not leave the loop ends with a sleep of POLL_INTERVAL;
\* failed_documents is result.failed_documents of a FINISHED reply, which is
\* logged (lines 341-346) before the status JSON is returned
poll_task_status(reply, took, failed_documents) ==
    /\ pc = "poll"
    /\ CASE reply = "ConnectionError" ->
              /\ IF polling.retries > poll_retries_limit
                 THEN PollEnds(TRUE)
                 ELSE PollGoesOn
              /\ polling' = IF polling.retries > poll_retries_limit
                            THEN [polling EXCEPT !.got = "exception",
                                                 !.elapsed = @ + took]
                            ELSE [polling EXCEPT !.got = "exception",
                                                 !.retries = @ + 1,
                                                 !.elapsed = @ + took + 1]
         [] reply = "array" ->
              \* a list has no method get: AttributeError leaves process_batch
              \* and run() and is caught by the runner's "except Exception"
              /\ ProcessExit(1)
              /\ hist' = ClearBatch([hist EXCEPT !.end = "exception"])
              /\ UNCHANGED <<manifest, polling>>
         [] OTHER ->
              LET timed_out == TimedOut(polling.elapsed + took)
                  verdict == Verdict(StateOf(reply), timed_out)
              IN  /\ CASE verdict = "return" -> PollEnds(FALSE)
                        [] verdict = "raise" -> PollEnds(TRUE)
                        [] OTHER -> PollGoesOn
                  /\ polling' = [polling EXCEPT
                                    !.got = "response",
                                    !.failed_documents =
                                        IF StateOf(reply) = "FINISHED"
                                        THEN failed_documents ELSE @,
                                    !.elapsed = @ + took + (IF verdict = "continue"
                                                            THEN 1 ELSE 0),
                                    !.state = StateOf(reply),
                                    !.timed_out = timed_out /\ StateOf(reply) \notin
                                                     {"FINISHED", "FAILED", "UNKNOWN"}]
    /\ UNCHANGED <<checkpoint_file, settings, existing_docs, current_offset,
                   current_batch, stats, run_no>>

\* ---- IngestionProcessor.run: after process_batch returned -------------------
\* lines 310-339: counters, offset, periodic checkpoint, continue_on_error
Account ==
    /\ pc = "account"
    /\ stats' = [stats EXCEPT !.total_completed = @ + Len(successful),
                              !.total_failed = @ + Len(failed),
                              !.total_processed = @ + Len(files)]
    /\ current_offset' = current_offset + Len(files)
    /\ checkpoint_file' =
          IF current_batch % settings.checkpoint_interval = 0
          THEN CheckpointData(current_offset', current_batch,
                              stats'.total_processed, stats'.total_failed)
          ELSE checkpoint_file
    /\ IF failed # <<>> /\ ~settings.continue_on_error
       THEN /\ pc' = "final"
            /\ hist' = ClearBatch([hist EXCEPT !.batches_done = @ + 1,
                                                !.loop_exit = "errors"])
       ELSE /\ pc' = "fetch"
            /\ hist' = ClearBatch([hist EXCEPT !.batches_done = @ + 1])
    /\ files' = <<>>
    /\ successful' = <<>>
    /\ failed' = <<>>
    /\ ResetBatchLocals
    /\ UNCHANGED <<manifest, settings, existing_docs, exit_code, current_batch, run_no>>

\* lines 355-363 "Final checkpoint", then the runner returns 0
Final ==
    /\ pc = "final"
    /\ checkpoint_file' = SaveCheckpoint
    /\ ProcessExit(0)
    /\ hist' = [hist EXCEPT !.end = hist.loop_exit]
    /\ UNCHANGED <<manifest, settings, existing_docs, current_offset, current_batch,
                   stats, run_no>>

\* ---- interruption -----------------------------------------------------------
\* SIGINT: KeyboardInterrupt raised in the main thread, between any two
\* statements of it.  Inside the try block of
\* run() the handler saves a checkpoint and re-raises; the final checkpoint
\* (pc = "final") is outside the try block.  The runner returns 130.
InTryBlock == pc \in {"fetch", "filter", "mark", "verify", "upload", "poll", "account"}

\* the statements of lines 310-315 a KeyboardInterrupt can fall between: the
\* three counters, then the offset
AccountingPoints == 0..4

\* stats after the first k of these statements
AccountedAfter(k) ==
    [stats EXCEPT !.total_completed = IF k >= 1 THEN @ + Len(successful) ELSE @,
                  !.total_failed = IF k >= 2 THEN @ + Len(failed) ELSE @,
                  !.total_processed = IF k >= 3 THEN @ + Len(files) ELSE @]

\* the interrupt arrives when k of the accounting statements have run (k = 0
\* anywhere else); the handler saves what the locals hold at that point
KeyboardInterrupt(k) ==
    /\ Running
    /\ k > 0 => pc = "account"
    /\ stats' = AccountedAfter(k)
    /\ current_offset' = IF k = 4 THEN current_offset + Len(files) ELSE current_offset
    /\ checkpoint_file' = IF InTryBlock
                          THEN CheckpointData(current_offset', current_batch,
                                              stats'.total_processed,
                                              stats'.total_failed)
                          ELSE checkpoint_file
    /\ ProcessExit(130)
    /\ hist' = ClearBatch([hist EXCEPT !.end = "SIGINT"])
    /\ UNCHANGED <<manifest, settings, existing_docs, current_batch, run_no>>

Signals == {"SIGTERM", "SIGKILL"}
SignalNumber(sig) == IF sig = "SIGTERM" THEN 15 ELSE 9

\* SIGTERM and SIGKILL: the ingestion module installs no signal handler, so the
\* process dies on the spot with both; no Python code runs after the signal.
Signal(sig) ==
    /\ Running
    /\ ProcessExit(128 + SignalNumber(sig))
    /\ hist' = ClearBatch([hist EXCEPT !.end = "killed"])
    /\ UNCHANGED <<manifest, checkpoint_file, settings, existing_docs, current_offset,
                   current_batch, stats, run_no>>

\* ---- specification ----------------------------------------------------------
Next ==
    \/ \E resume \in BOOLEAN, docs \in SUBSET Names : StartRun(resume, docs) /\ UNCHANGED <<controlVars, bootstrapVars, callVars>>
    \/ Fetch /\ UNCHANGED <<controlVars, bootstrapVars, callVars>>
    \/ Filter /\ UNCHANGED <<controlVars, bootstrapVars, callVars>>
    \/ Mark /\ UNCHANGED <<controlVars, bootstrapVars, callVars>>
    \/ \E on_disk \in SUBSET Range(files_to_upload) : Verify(on_disk) /\ UNCHANGED <<controlVars, bootstrapVars, callVars>>
    \/ \E outcome \in UploadOutcomes : UploadAttempt(outcome) /\ UNCHANGED <<controlVars, bootstrapVars, callVars>>
    \/ \E outcome \in PollOutcomes : Poll(outcome) /\ UNCHANGED <<controlVars, bootstrapVars, callVars>>
    \/ Account /\ UNCHANGED <<controlVars, bootstrapVars, callVars>>
    \/ Final /\ UNCHANGED <<controlVars, bootstrapVars, callVars>>
    \/ \E k \in AccountingPoints : KeyboardInterrupt(k) /\ UNCHANGED <<controlVars, bootstrapVars, callVars>>
    \/ \E sig \in Signals : Signal(sig) /\ UNCHANGED <<controlVars, bootstrapVars, callVars>>

Spec == Init /\ [][Next]_vars

\* ---- one ingestion run left alone: no signal, every call returns --------------
NextRun ==
    \/ \E docs \in SUBSET Names : StartRun(FALSE, docs) /\ UNCHANGED <<controlVars, bootstrapVars, callVars>>
    \/ Fetch /\ UNCHANGED <<controlVars, bootstrapVars, callVars>>
    \/ Filter /\ UNCHANGED <<controlVars, bootstrapVars, callVars>>
    \/ Mark /\ UNCHANGED <<controlVars, bootstrapVars, callVars>>
    \/ \E on_disk \in SUBSET Range(files_to_upload) : Verify(on_disk) /\ UNCHANGED <<controlVars, bootstrapVars, callVars>>
    \/ \E outcome \in UploadOutcomes : UploadAttempt(outcome) /\ UNCHANGED <<controlVars, bootstrapVars, callVars>>
    \/ \E outcome \in PollOutcomes : Poll(outcome) /\ UNCHANGED <<controlVars, bootstrapVars, callVars>>
    \/ Account /\ UNCHANGED <<controlVars, bootstrapVars, callVars>>
    \/ Final /\ UNCHANGED <<controlVars, bootstrapVars, callVars>>

\* the process is scheduled as long as it has a step to take; every step of
\* NextRun changes pc or attempt
SpecRun == Init /\ [][NextRun]_vars /\ WF_vars(NextRun)

\* ---- one run over rows that share their base names ----------------------------
\* paths 2 and 3 are files of one name in two directories; the server's list
\* is any set of these names
InitSkip ==
    /\ manifest = [p \in 2..(MaxRows + 1) |-> FreshRow("discovered")]
    /\ settings \in [batch_size : 1..MaxRows, checkpoint_interval : {1},
                      max_retries : {max_retries_default},
                      continue_on_error : {TRUE}, resume : {FALSE}]
    /\ InitLocals

SpecSkip == InitSkip /\ [][NextRun]_vars

\* ---- the ingestion process with the status polls of the client ----------------
\* every row discovered, one batch of all rows
InitPoll ==
    /\ manifest = [p \in 1..MaxRows |-> FreshRow("discovered")]
    /\ settings = [batch_size |-> MaxRows, checkpoint_interval |-> 1,
                   max_retries |-> max_retries_default,
                   continue_on_error |-> TRUE, resume |-> FALSE]
    /\ InitLocals

pollFrame == <<controlVars, bootstrapVars, extraction>>

NextPoll ==
    \/ \E docs \in SUBSET Names : StartRun(FALSE, docs) /\ UNCHANGED <<pollFrame, polling>>
    \/ Fetch /\ UNCHANGED <<pollFrame, polling>>
    \/ Filter /\ UNCHANGED <<pollFrame, polling>>
    \/ Mark /\ UNCHANGED <<pollFrame, polling>>
    \/ \E on_disk \in SUBSET Range(files_to_upload) : Verify(on_disk) /\ UNCHANGED <<pollFrame, polling>>
    \/ \E outcome \in UploadOutcomes :
          \* a call of poll_task_status starts with its locals fresh
          UploadAttempt(outcome) /\ polling' = NotPolling /\ UNCHANGED pollFrame
    \/ \E reply \in PollReplies, took \in 0..MaxTook :
          \E failed_documents \in SUBSET Range(existing_files) :
             poll_task_status(reply, took, failed_documents) /\ UNCHANGED pollFrame
    \/ Account /\ UNCHANGED <<pollFrame, polling>>
    \/ Final /\ UNCHANGED <<pollFrame, polling>>

SpecPoll == InitPoll /\ [][NextPoll]_vars

\* the same with the process scheduled as long as it has a step to take: every
\* turn of the poll loop takes its time
SpecWait == InitPoll /\ [][NextPoll]_vars /\ WF_vars(NextPoll)

\* ---- the ingestion process with restarts -----------------------------------
\* every row discovered, a checkpoint after every batch, continue_on_error at
\* its default
InitRestart ==
    /\ manifest = [p \in 1..MaxRows |-> FreshRow("discovered")]
    /\ settings \in [batch_size : 1..MaxRows, checkpoint_interval : {1},
                      max_retries : {max_retries_default},
                      continue_on_error : {TRUE}, resume : {FALSE}]
    /\ InitLocals

NextRestart ==
    \/ Next
    \/ \E resume \in BOOLEAN, docs \in SUBSET Names : Restart(resume, docs) /\ UNCHANGED <<controlVars, bootstrapVars, callVars>>

SpecRestart == InitRestart /\ [][NextRestart]_vars

\* ---- the resume scenario -----------------------------------------------------
\* TotalBatches batches' worth of eligible rows, a checkpoint after every batch
InitResume ==
    /\ settings \in [batch_size : {1}, checkpoint_interval : {1},
                     max_retries : {max_retries_default},
                     continue_on_error : {TRUE}, resume : {FALSE}]
    /\ manifest = [p \in 1..(TotalBatches * settings.batch_size) |-> FreshRow("discovered")]
    /\ InitLocals

SpecResume == InitResume /\ [][NextRestart]_vars

\* ---- the repository on its own ----------------------------------------------
\* any caller, any sequence of update_ingestion_status calls
UpdateStatuses == {"ingesting", "completed", "failed"}

UpdateCall(file_path, status, error) ==
    /\ manifest[file_path].ingestion_attempts < MaxAttempts
    /\ manifest' = update_ingestion_status(manifest, file_path, status, error)
    /\ UNCHANGED <<checkpoint_file, settings, existing_docs, pc, exit_code,
                   current_offset, current_batch, stats, files, files_to_upload,
                   existing_files, successful, failed, attempt, run_no, hist>>

NextRepository ==
    \E file_path \in Paths, status \in UpdateStatuses, error \in {NULL, StrE} :
        /\ UpdateCall(file_path, status, error)
        /\ UNCHANGED <<controlVars, bootstrapVars, callVars>>

SpecRepository == Init /\ [][NextRepository]_vars

\* ---- one pass with the bootstrap engine writing to the same manifest --------
\* the manifest starts with some of the paths; the others arrive during the pass
InitInsert ==
    /\ \E S \in SUBSET (1..MaxRows) : manifest = [p \in S |-> FreshRow("discovered")]
    /\ settings \in [batch_size : 1..MaxRows, checkpoint_interval : {1},
                     max_retries : {max_retries_default},
                     continue_on_error : {TRUE}, resume : {FALSE}]
    /\ InitLocals

\* a committed INSERT of the bootstrap engine for a path not yet in the manifest
Insert(p) ==
    /\ p \notin Paths
    /\ manifest' = [q \in Paths \cup {p} |->
                       IF q = p THEN FreshRow("discovered") ELSE manifest[q]]
    /\ UNCHANGED <<checkpoint_file, settings, existing_docs, pc, exit_code,
                   current_offset, current_batch, stats, files, files_to_upload,
                   existing_files, successful, failed, attempt, run_no, hist>>

NextInsert ==
    \/ Next
    \/ \E p \in 1..MaxRows : Insert(p) /\ UNCHANGED <<controlVars, bootstrapVars, callVars>>

SpecInsert == InitInsert /\ [][NextInsert]_vars

\* ---- get_pending_files on its own ---------------------------------------------
\* any manifest the schema admits: every discovery status the bootstrap writes,
\* is_directory either way, every ingestion status
QueryDiscovery == {"discovered", "skipped"}
QueryIngestion == {NULL, "pending", "ingesting", "completed", "failed"}

QueryRow(status, is_directory, ingestion_status) ==
    [FreshRow(status) EXCEPT !.is_directory = is_directory,
                             !.ingestion_status = ingestion_status]

InitQuery ==
    /\ manifest \in [1..MaxRows -> {QueryRow(st, d, ing) :
                          st \in QueryDiscovery, d \in BOOLEAN, ing \in QueryIngestion}]
    /\ settings \in [batch_size : {1}, checkpoint_interval : {1},
                     max_retries : {max_retries_default},
                     continue_on_error : {TRUE}, resume : {FALSE}]
    /\ InitLocals

\* repository.get_pending_files(batch_size, offset), the result kept in files
Query(batch_size, offset) ==
    /\ pc \in {"idle", "queried"}
    /\ files' = get_pending_files(manifest, batch_size, offset)
    /\ settings' = [settings EXCEPT !.batch_size = batch_size]
    /\ current_offset' = offset
    /\ pc' = "queried"
    /\ UNCHANGED <<manifest, checkpoint_file, existing_docs, exit_code, current_batch,
                   stats, files_to_upload, existing_files, successful, failed,
                   attempt, run_no, hist>>

NextQuery ==
    \E batch_size \in 1..MaxRows, offset \in 0..MaxRows :
        /\ Query(batch_size, offset)
        /\ UNCHANGED <<controlVars, bootstrapVars, callVars>>

SpecQuery == InitQuery /\ [][NextQuery]_vars

\* ---- no engine started yet: an empty manifest, default settings ---------------
InitEngines ==
    /\ manifest = <<>>
    /\ settings = [batch_size |-> 1, checkpoint_interval |-> 1,
                   max_retries |-> max_retries_default,
                   continue_on_error |-> TRUE, resume |-> FALSE]
    /\ InitLocals

\* ---- ManifestRepository.bulk_upsert -------------------------------------------
\* A record presented to bulk_upsert is [file_path, status, raw_acl,
\* acl_captured, is_directory].  size, mtime and error are written by the same
\* INSERT as raw_acl and by no UPDATE of the bootstrap engine; raw_acl stands
\* for them.
\* the row an INSERT makes of a record: to_db_dict, and the column defaults
NewRow(rec) ==
    [status |-> rec.status, raw_acl |-> rec.raw_acl,
     acl_captured |-> rec.acl_captured, is_directory |-> rec.is_directory,
     last_seen |-> rec.last_seen,
     ingestion_status |-> "pending", ingestion_attempts |-> 0,
     ingestion_error |-> NULL, ingested_at |-> NULL]

\* INSERT OR REPLACE: the presented record takes the place of the row
InsertOrReplace(m, rec) ==
    [q \in DOMAIN m \cup {rec.file_path} |->
        IF q = rec.file_path THEN NewRow(rec) ELSE m[q]]

\* INSERT OR IGNORE of one record: file_path is UNIQUE, an existing row stays
InsertOrIgnore(m, rec) ==
    IF rec.file_path \in DOMAIN m THEN m
    ELSE [q \in DOMAIN m \cup {rec.file_path} |->
             IF q = rec.file_path THEN NewRow(rec) ELSE m[q]]

\* INSERT OR IGNORE ... VALUES (record_dicts)
RECURSIVE InsertAll(_, _)
InsertAll(m, records) ==
    IF records = <<>> THEN m
    ELSE InsertAll(InsertOrIgnore(m, Head(records)), Tail(records))

\* result.rowcount
Rowcount(before, after) == Cardinality(DOMAIN after \ DOMAIN before)

\* an UPDATE that leaves last_seen as it is
KeepLastSeen(m, records, now) == m

\* UPDATE manifest SET last_seen = CURRENT_TIMESTAMP WHERE file_path IN (paths)
RefreshLastSeen(m, records, now) ==
    [q \in DOMAIN m |->
        IF \E i \in 1..Len(records) : records[i].file_path = q
        THEN [m[q] EXCEPT !.last_seen = now] ELSE m[q]]

\* what the database does to the statements of one call.  On the bulk path one
\* statement may raise an SQLAlchemyError that is no IntegrityError.  The
\* fallback path is taken when the bulk INSERT raises IntegrityError; there each
\* row insert succeeds or raises IntegrityError, and raises says whether some
\* statement of the fallback (a row insert or the commit) raises another
\* SQLAlchemyError.
RowOutcomes == {"ok", "IntegrityError"}

BulkFaults == [path : {"bulk"}, raises : {NULL, "insert", "update", "commit"}]

FallbackFaults(n) ==
    [path : {"fallback"}, rows : [1..n -> RowOutcomes], raises : BOOLEAN]

UpsertReturns(m, inserted, skipped) ==
    [manifest |-> m, raised |-> FALSE, inserted |-> inserted, skipped |-> skipped]

\* "except SQLAlchemyError: session.rollback(); raise DatabaseError"
UpsertRaises(committed) ==
    [manifest |-> committed, raised |-> TRUE, inserted |-> 0, skipped |-> 0]

\* "Fallback: insert one by one" (lines 88-103); session is the uncommitted
\* state of the transaction, committed the table as last committed
RECURSIVE Fallback(_, _, _, _, _, _, _)
Fallback(committed, session, records, f, i, inserted, skipped) ==
    IF f.raises THEN UpsertRaises(committed)
    ELSE IF i > Len(records) THEN UpsertReturns(session, inserted, skipped)
    ELSE CASE f.rows[i] = "ok" ->
                LET after == InsertOrIgnore(session, records[i])
                IN  IF Rowcount(session, after) > 0
                    THEN Fallback(committed, after, records, f, i + 1, inserted + 1, skipped)
                    ELSE Fallback(committed, after, records, f, i + 1, inserted, skipped + 1)
           [] OTHER ->
                \* except IntegrityError: skipped += 1; session.rollback()
                Fallback(committed, committed, records, f, i + 1, inserted, skipped + 1)

\* bulk_upsert(records) at time now on table m, the database behaving as f says
bulk_upsert(m, records, now, f) ==
    IF records = <<>> THEN UpsertReturns(m, 0, 0)
    ELSE IF f.path = "fallback"
    THEN Fallback(m, m, records, f, 1, 0, 0)
    ELSE IF f.raises # NULL THEN UpsertRaises(m)
    ELSE LET inserted_rows == InsertAll(m, records)
             inserted == Rowcount(m, inserted_rows)
         IN  UpsertReturns(RefreshLastSeen(inserted_rows, records, now),
                       inserted, Len(records) - inserted)

\* what a record can report of a path: stat and ACL read, or the ACL not read
Observations ==
    {[status |-> "discovered", raw_acl |-> "acl"],
     [status |-> "acl_failed", raw_acl |-> NULL]}

\* FileRecord(file_path=..., last_seen=utcnow()) of an observation
Record(file_path, obs, now) ==
    [file_path |-> file_path, status |-> obs.status, raw_acl |-> obs.raw_acl,
     acl_captured |-> obs.status = "discovered", is_directory |-> FALSE,
     last_seen |-> now]

\* the records a scan at time now can present
Records(now) == {Record(p, obs, now) : p \in 1..MaxRows, obs \in Observations}

\* a row an earlier scan inserted, as the ingestion engine may have left it
ScannedRow(obs, ingestion) ==
    LET row == NewRow(Record(1, obs, 0))
    IN  IF ingestion = "pending" THEN row
        ELSE update_ingestion_status(<<row>>, 1, ingestion, NULL)[1]

\* the manifest after earlier scans and ingestion runs: any subset of the paths
InitUpsert ==
    /\ \E S \in SUBSET (1..MaxRows) :
          manifest \in [S -> {ScannedRow(obs, ing) :
                                obs \in Observations,
                                ing \in {"pending", "completed"}}]
    /\ settings = [batch_size |-> 1, checkpoint_interval |-> 1,
                   max_retries |-> max_retries_default,
                   continue_on_error |-> TRUE, resume |-> FALSE]
    /\ InitLocals

\* one call repository.bulk_upsert(records), the clock read at the call
BulkUpsertCall(records, f) ==
    /\ ~boot.call.made
    /\ LET now == boot.clock + 1
           res == bulk_upsert(manifest, records, now, f)
       IN  /\ manifest' = res.manifest
           /\ boot' = [boot EXCEPT !.clock = now,
                         !.call = [made |-> TRUE, records |-> records, path |-> f.path,
                                   raised |-> res.raised, inserted |-> res.inserted,
                                   skipped |-> res.skipped, before |-> manifest]]
    /\ UNCHANGED <<checkpoint_file, settings, existing_docs, pc, exit_code,
                   current_offset, current_batch, stats, files, files_to_upload,
                   existing_files, successful, failed, attempt, run_no, hist>>
    /\ UNCHANGED <<tree, walk, emitted>>

NextUpsert ==
    /\ ~boot.call.made
    /\ \E k \in 0..MaxRows : \E records \in [1..k -> Records(boot.clock + 1)] :
           \/ \E f \in BulkFaults :
                 BulkUpsertCall(records, f) /\ UNCHANGED <<controlVars, callVars>>
           \/ \E f \in FallbackFaults(k) :
                 BulkUpsertCall(records, f) /\ UNCHANGED <<controlVars, callVars>>

SpecUpsert == InitUpsert /\ [][NextUpsert]_vars

\* ---- CheckpointManager.load and save, and the runner that resumes ------------
\* the largest number a checkpoint holds
MaxSaved == 1

\* what json.load returns for a file that is valid JSON and holds no object
NonObjects == {"array", "string", "number", "true", "null"}

\* a checkpoint file that exists and does not hold an object: text that is not
\* JSON ("invalid"), or one of NonObjects
Malformed(what) == [exists |-> TRUE, malformed |-> what]

IsMalformed(file) == file.exists /\ "malformed" \in DOMAIN file

\* the checkpoint file as a process can find it
CheckpointFiles ==
    {NoCheckpoint}
    \cup {Malformed(what) : what \in NonObjects \cup {"invalid"}}
    \cup {CheckpointData(offset, batch_num, total_processed, total_failed) :
              offset \in 0..MaxSaved, batch_num \in 0..MaxSaved,
              total_processed \in 0..MaxSaved, total_failed \in 0..MaxSaved}

\* a load that answers a JSON value without keys with the defaults of its keys
load_Defaults(file) ==
    CASE ~file.exists -> NoCheckpoint
      [] IsMalformed(file) /\ file.malformed = "invalid" -> NoCheckpoint
      [] IsMalformed(file) /\ file.malformed # "invalid" -> CheckpointData(0, 0, 0, 0)
      [] OTHER -> file

\* CheckpointManager.load: None (NoCheckpoint) when the file is missing, when
\* json.load raises JSONDecodeError, and when the value parsed has no method
\* get, which the debug message calls (AttributeError, caught as Exception);
\* the parsed object otherwise
load(file) ==
    CASE ~file.exists -> NoCheckpoint
      [] IsMalformed(file) /\ file.malformed = "invalid" -> NoCheckpoint
      [] IsMalformed(file) /\ file.malformed # "invalid" -> NoCheckpoint
      [] OTHER -> file

\* mkdir or open fails and the file stays; the write fails after open
\* truncated the file; the process is killed after open truncated the file and
\* before json.dump wrote the whole object; or the object is written whole
SaveOutcomes == {"saved", "OSError before open", "OSError after open", "killed after open"}

NoLoad == [saved |-> NoCheckpoint, loaded |-> NoCheckpoint, none_loaded |-> FALSE]

\* IngestionRunner.run, "Load checkpoint if resuming"
RunnerResume(resume) ==
    /\ pc \in {"idle", "exited"}
    /\ LET checkpoint == IF resume THEN load(checkpoint_file) ELSE NoCheckpoint
       IN  /\ current_offset' = ResumeOffset(resume, checkpoint)
           /\ current_batch' = ResumeBatch(resume, checkpoint)
           /\ hist' = [hist EXCEPT !.loaded = checkpoint,
                                   !.none_loaded = @ \/ (resume /\ IsMalformed(checkpoint_file))]
    /\ settings' = [settings EXCEPT !.resume = resume]
    /\ pc' = "run"
    /\ exit_code' = NoExitCode
    /\ UNCHANGED <<manifest, checkpoint_file, existing_docs, stats, files,
                   files_to_upload, existing_files, successful, failed, attempt, run_no>>

\* CheckpointManager.save called by the processor; an exception of save ends
\* the run with exit code 1
CheckpointSave(offset, batch_num, total_processed, total_failed, outcome) ==
    /\ pc = "run"
    /\ checkpoint_file' =
          CASE outcome = "saved" ->
                   CheckpointData(offset, batch_num, total_processed, total_failed)
            [] outcome = "OSError before open" -> checkpoint_file
            [] outcome \in {"OSError after open", "killed after open"} ->
                   Malformed("invalid")
    /\ hist' = [hist EXCEPT !.saved = IF outcome = "saved"
                                      THEN CheckpointData(offset, batch_num,
                                                          total_processed, total_failed)
                                      ELSE NoCheckpoint]
    /\ IF outcome = "saved"
       THEN UNCHANGED <<pc, exit_code, files, successful, failed, files_to_upload,
                        existing_files, attempt>>
       ELSE ProcessExit(IF outcome = "killed after open" THEN 128 + SignalNumber("SIGKILL")
                        ELSE 1)
    /\ UNCHANGED <<manifest, settings, existing_docs, current_offset, current_batch,
                   stats, run_no>>

\* the process ends without another save
RunEnds ==
    /\ pc = "run"
    /\ ProcessExit(0)
    /\ UNCHANGED <<manifest, checkpoint_file, settings, existing_docs, current_offset,
                   current_batch, stats, run_no, hist>>

\* any checkpoint file, no process running
InitCheckpoint ==
    /\ manifest = <<>>
    /\ settings \in [batch_size : {1}, checkpoint_interval : {1},
                      max_retries : {max_retries_default}, continue_on_error : {TRUE},
                      resume : {FALSE}]
    /\ checkpoint_file \in CheckpointFiles
    /\ hist = NoLoad
    /\ existing_docs = {}
    /\ pc = "idle"
    /\ exit_code = NoExitCode
    /\ current_offset = 0
    /\ current_batch = 0
    /\ stats = IngestionStats
    /\ files = <<>> /\ files_to_upload = <<>> /\ existing_files = <<>>
    /\ successful = <<>> /\ failed = <<>> /\ attempt = 0
    /\ run_no = 0
    /\ InitControl
    /\ InitCalls
    /\ InitBootstrap

NextCheckpoint ==
    \/ \E resume \in BOOLEAN : RunnerResume(resume) /\ UNCHANGED <<controlVars, bootstrapVars, callVars>>
    \/ \E data \in CheckpointFiles \ ({NoCheckpoint} \cup {f \in CheckpointFiles : IsMalformed(f)}),
          outcome \in SaveOutcomes :
           /\ CheckpointSave(data.offset, data.batch_num, data.total_processed,
                             data.total_failed, outcome)
           /\ UNCHANGED <<controlVars, bootstrapVars, callVars>>
    \/ RunEnds /\ UNCHANGED <<controlVars, bootstrapVars, callVars>>

SpecCheckpoint == InitCheckpoint /\ [][NextCheckpoint]_vars

\* ---- ManifestRepository.get_stats ----------------------------------------------
CountStatus(m, status) == Cardinality({p \in DOMAIN m : m[p].status = status})

get_stats(m) ==
    [total |-> Cardinality(DOMAIN m),
     discovered |-> CountStatus(m, "discovered"),
     permission_denied |-> CountStatus(m, "permission_denied"),
     acl_failed |-> CountStatus(m, "acl_failed"),
     errors |-> CountStatus(m, "error"),
     acl_captured |-> Cardinality({p \in DOMAIN m : m[p].acl_captured})]

\* ---- the discovery engine: DirectoryWalker and BatchProcessor ------------------
\* A tree is a sequence of entries [kind, parent, target]; the root directory is
\* node Root and entry n lies in the directory parent[n].  stat is what
\* entry.stat(follow_symlinks=False) does on the entry: it returns ("ok"), it
\* does not return within the timeout, or it raises.  target is the node a
\* symlink names (the entry itself when it is no symlink; a symlink that names
\* itself is a symlink loop).
Root == 0

\* entry n: a file or a directory, or a symlink to the root (an ancestor of
\* every entry), to the entry before it or to itself
EntryChoices(n) ==
    [kind : {"file", "dir"}, parent : 0..(n - 1), target : {n}, stat : {"ok"}]
    \cup [kind : {"symlink"}, parent : 0..(n - 1), target : {Root, n - 1, n},
           stat : {"ok"}]

IsDir(t, n) == n = Root \/ t[n].kind = "dir"

Children(t, d) == {n \in DOMAIN t : t[n].parent = d}

\* the trees of k entries, grown entry by entry: entry k lies in a directory
\* among the root and the entries before it
RECURSIVE Grow(_)
Grow(k) ==
    IF k = 0 THEN {<<>>}
    ELSE {Append(q[1], q[2]) :
             q \in {p \in Grow(k - 1) \X EntryChoices(k) :
                       IsDir(p[1], p[2].parent)}}

\* the trees of at most MaxEntries entries
Trees == UNION {Grow(size) : size \in 1..MaxEntries}

\* the tree {a.txt, b/c.pdf, b/d -> a.txt}: entries a.txt, b, c.pdf, d
ScenarioTree ==
    <<[kind |-> "file", parent |-> Root, target |-> 1, stat |-> "ok"],
      [kind |-> "dir", parent |-> Root, target |-> 2, stat |-> "ok"],
      [kind |-> "file", parent |-> 2, target |-> 3, stat |-> "ok"],
      [kind |-> "symlink", parent |-> 2, target |-> 1, stat |-> "ok"]>>

\* Path.resolve(): the last component is followed while it is a symlink
RECURSIVE Follow(_, _, _)
Follow(t, n, hops) ==
    IF n = Root \/ t[n].kind # "symlink" \/ hops = 0 THEN n
    ELSE Follow(t, t[n].target, hops - 1)

Resolve(t, n) == Follow(t, n, Len(t))

\* resolve() meets a symlink loop: RuntimeError up to Python 3.12, the path
\* as it is from Python 3.13 on
SymlinkLoop(t, n) == ~IsDir(t, Resolve(t, n)) /\ t[Resolve(t, n)].kind = "symlink"

\* the orders in which os.scandir can list a directory
Orders(S) ==
    {o \in [1..Cardinality(S) -> S] : \A i, j \in DOMAIN o : o[i] = o[j] => i = j}

\* FileRecord.create_skipped(entry_path, reason): keyed by entry_path.resolve()
create_skipped(t, n, now) ==
    [entry |-> n, file_path |-> Resolve(t, n), status |-> "skipped",
     error |-> "Symlink skipped to prevent cycles", raw_acl |-> NULL,
     acl_captured |-> FALSE, is_directory |-> FALSE, last_seen |-> now]

\* a record of status error that never carries the timeout message
_process_file_NoMessage(t, n, now) ==
    [entry |-> n, file_path |-> n, status |-> "error", error |-> "Processing error",
     raw_acl |-> NULL, acl_captured |-> FALSE, is_directory |-> FALSE,
     last_seen |-> now]

\* DirectoryWalker._process_file.  A stat that does not return in time makes
\* a record of status error with the timeout message (lines 238-258).
\* Otherwise "await extract_acl(...)" calls the synchronous wrapper, which
\* calls run_until_complete and then asyncio.run on the running loop; both
\* raise RuntimeError, and "except Exception" (line 281), which catches a
\* raising stat as well, makes a record of status error.
_process_file(t, n, now) ==
    [entry |-> n, file_path |-> n, status |-> "error",
     error |-> IF t[n].stat = "timeout" THEN "Stat timeout" ELSE "Processing error",
     raw_acl |-> NULL, acl_captured |-> FALSE, is_directory |-> FALSE,
     last_seen |-> now]

\* one frame of _walk_recursive
Frame(d) == [dir |-> d, attempt |-> 0, scanned |-> FALSE, entries |-> <<>>]

Top == walk[Len(walk)]

Pop == SubSeq(walk, 1, Len(walk) - 1)

\* "for attempt in range(self.max_retries)": one failure is the last at once
FinalAttempt_First(k) == TRUE

\* "if attempt == self.max_retries - 1"
FinalAttempt(k) == k = boot.max_retries - 1

\* a database that carries the statements out
NoFault == [path |-> "bulk", raises |-> NULL]

\* a flush that leaves the buffer as it is
_flush_batch_KeepsBuffer(b, m, f) ==
    IF b._batch = <<>> THEN [boot |-> b, manifest |-> m, raised |-> FALSE]
    ELSE [boot |-> [b EXCEPT !.written = Append(@, b._batch)],
          manifest |-> bulk_upsert(m, b._batch, b.clock + 1, f).manifest,
          raised |-> bulk_upsert(m, b._batch, b.clock + 1, f).raised]

\* BatchProcessor._flush_batch, the database behaving as f says; written lists
\* the batches handed to bulk_upsert; the buffer is emptied before the call
_flush_batch(b, m, f) ==
    IF b._batch = <<>> THEN [boot |-> b, manifest |-> m, raised |-> FALSE]
    ELSE LET res == bulk_upsert(m, b._batch, b.clock + 1, f)
             called == [b EXCEPT !._batch = <<>>, !.written = Append(@, b._batch)]
         IN  IF res.raised
             THEN [boot |-> called, manifest |-> res.manifest, raised |-> TRUE]
             ELSE [boot |-> [called EXCEPT !.stats.total_added = @ + res.inserted,
                                           !.stats.total_skipped = @ + res.skipped],
                   manifest |-> res.manifest, raised |-> FALSE]

\* a classification that counts a skipped record with the other errors
Counter_SkippedIsOther(record) ==
    CASE record.status = "permission_denied" -> "permission_errors"
      [] record.status \in {"error", "skipped"} -> "other_errors"
      [] record.acl_captured -> "acl_captured"
      [] OTHER -> "acl_failed"

\* "Update stats based on status" (lines 83-90): the counter a record adds to
Counter(record) ==
    CASE record.status = "permission_denied" -> "permission_errors"
      [] record.status = "error" -> "other_errors"
      [] record.acl_captured -> "acl_captured"
      [] OTHER -> "acl_failed"

\* BatchProcessor._process_record(record)
_process_record(b, m, record, f) ==
    LET counted == [b EXCEPT !.stats.total_discovered = @ + 1,
                             !.stats[Counter(record)] = @ + 1,
                             !._batch = Append(@, record)]
    IN  IF Len(counted._batch) >= b.batch_size THEN _flush_batch(counted, m, f)
        ELSE [boot |-> counted, manifest |-> m, raised |-> FALSE]

\* the record stream ends: process_stream flushes the rest and returns
StreamEnds(b, m) ==
    LET res == _flush_batch(b, m, NoFault)
    IN  [boot |-> [res.boot EXCEPT !.pc = "done", !.exit_code = 0],
         manifest |-> res.manifest]

\* an exception leaves the walker: process_stream and run re-raise, main exits 1
StreamRaises(b, m, error) ==
    [boot |-> [b EXCEPT !.pc = "failed", !.exit_code = 1, !.error = error],
     manifest |-> m]

ingestionLocals ==
    <<checkpoint_file, settings, existing_docs, pc, exit_code, current_offset,
      current_batch, stats, files, files_to_upload, existing_files, successful,
      failed, attempt, run_no, hist>>

\* "yield record": the consumer runs _process_record before the walker goes on
Yield(w, record) ==
    LET res == _process_record(boot, manifest, record, NoFault)
    IN  /\ walk' = w
        /\ emitted' = Append(emitted, record)
        /\ boot' = res.boot
        /\ manifest' = res.manifest

\* a frame returns: the caller goes on, or the stream ends with the root frame
Returns_(w, b) ==
    /\ walk' = w
    /\ emitted' = emitted
    /\ IF w = <<>>
       THEN LET res == StreamEnds(b, manifest)
            IN  boot' = res.boot /\ manifest' = res.manifest
       ELSE boot' = b /\ manifest' = manifest

\* BootstrapRunner.run: self.config.acl_extractor (line 94) raises
\* AttributeError, Settings has no such field; the call that follows,
\* DirectoryWalker(..., acl_extractor=acl_extractor), would raise TypeError,
\* __init__ takes timeout_seconds and max_retries only
RunnerRun ==
    /\ boot.pc = "idle"
    /\ boot' = StreamRaises(boot, manifest, "AttributeError").boot
    /\ UNCHANGED <<manifest, tree, walk, emitted>>
    /\ UNCHANGED ingestionLocals

\* processor.process_stream(walker.walk(root)) up to the first scandir
WalkStart(listdir) ==
    /\ boot.pc = "idle"
    /\ CASE listdir = "ok" ->
              /\ walk' = <<Frame(Root)>>
              /\ boot' = [boot EXCEPT !.pc = "walking"]
              /\ manifest' = manifest
         [] listdir = "PermissionError" ->
              /\ walk' = <<>>
              /\ boot' = [StreamEnds(boot, manifest).boot
                            EXCEPT !.error = "root_permission_denied"]
              /\ manifest' = StreamEnds(boot, manifest).manifest
         [] OTHER ->
              /\ walk' = <<>>
              /\ boot' = StreamRaises(boot, manifest, listdir).boot
              /\ manifest' = manifest
    /\ UNCHANGED <<tree, emitted>>
    /\ UNCHANGED ingestionLocals

\* os.scandir(current_dir) succeeds, the entries in the order it lists them
Scandir ==
    /\ boot.pc = "walking"
    /\ walk # <<>> /\ ~Top.scanned
    /\ \E order \in Orders(Children(tree, Top.dir)) :
          walk' = [walk EXCEPT ![Len(walk)] =
                      [@ EXCEPT !.scanned = TRUE, !.entries = order]]
    /\ UNCHANGED <<manifest, tree, boot, emitted>>
    /\ UNCHANGED ingestionLocals

\* os.scandir raises PermissionError or OSError: sleep and retry, or give up
ScandirFails ==
    /\ boot.pc = "walking"
    /\ walk # <<>> /\ ~Top.scanned
    /\ IF FinalAttempt(Top.attempt)
       THEN Returns_(Pop, [boot EXCEPT !.gave_up = @ \cup
                              {[dir |-> Top.dir, attempts |-> Top.attempt + 1]}])
       ELSE /\ walk' = [walk EXCEPT ![Len(walk)].attempt = @ + 1]
            /\ UNCHANGED <<manifest, boot, emitted>>
    /\ UNCHANGED tree
    /\ UNCHANGED ingestionLocals

\* one turn of "for entry in entries"; loop_raises says whether resolve()
\* raises on a symlink loop
Entry(loop_raises) ==
    /\ boot.pc = "walking"
    /\ walk # <<>> /\ Top.scanned /\ Top.entries # <<>>
    /\ LET e == Head(Top.entries)
           rest == [walk EXCEPT ![Len(walk)].entries = Tail(@)]
           now == boot.clock + 1
       IN  CASE tree[e].kind = "symlink" ->
                  IF SymlinkLoop(tree, e) /\ loop_raises
                  THEN /\ boot' = StreamRaises(boot, manifest, "RuntimeError").boot
                       /\ walk' = <<>>
                       /\ UNCHANGED <<manifest, emitted>>
                  ELSE Yield(rest, create_skipped(tree, e, now))
             [] tree[e].kind = "dir" ->
                  /\ walk' = Append(rest, Frame(e))
                  /\ UNCHANGED <<manifest, boot, emitted>>
             [] OTHER -> Yield(rest, _process_file(tree, e, now))
    /\ UNCHANGED tree
    /\ UNCHANGED ingestionLocals

\* the entries of a directory are done: _walk_recursive returns
Return ==
    /\ boot.pc = "walking"
    /\ walk # <<>> /\ Top.scanned /\ Top.entries = <<>>
    /\ Returns_(Pop, boot)
    /\ UNCHANGED tree
    /\ UNCHANGED ingestionLocals

\* a walk of any tree, the batch processor consuming it
InitWalk ==
    /\ manifest = <<>>
    /\ settings = [batch_size |-> 1, checkpoint_interval |-> 1,
                   max_retries |-> max_retries_default,
                   continue_on_error |-> TRUE, resume |-> FALSE]
    /\ InitIngestion
    /\ InitControl
    /\ InitCalls
    /\ tree \in Trees
    /\ walk = <<>>
    /\ emitted = <<>>
    /\ \E r \in {walker_max_retries_min, walker_max_retries_default} :
          boot = [pc |-> "idle", exit_code |-> NULL, clock |-> 0, _batch |-> <<>>,
                  stats |-> BootstrapStats, call |-> NoCall, written |-> <<>>, error |-> NULL,
                  gave_up |-> {}, max_retries |-> r, batch_size |-> MaxBatch,
                  acl_extractor |-> "getfacl", signalled |-> FALSE]

NextWalk ==
    \/ (\E listdir \in {"ok", "PermissionError", "OSError"} : WalkStart(listdir))
           /\ UNCHANGED <<controlVars, callVars>>
    \/ Scandir /\ UNCHANGED <<controlVars, callVars>>
    \/ ScandirFails /\ UNCHANGED <<controlVars, callVars>>
    \/ (\E loop_raises \in BOOLEAN : Entry(loop_raises)) /\ UNCHANGED <<controlVars, callVars>>
    \/ Return /\ UNCHANGED <<controlVars, callVars>>

SpecWalk == InitWalk /\ [][NextWalk]_vars

\* ---- walks of trees of files and directories, the stat of a file failing ------
StatOutcomes == {"ok", "timeout", "PermissionError"}

FileChoices(n) ==
    [kind : {"dir"}, parent : 0..(n - 1), target : {n}, stat : {"ok"}]
    \cup [kind : {"file"}, parent : 0..(n - 1), target : {n}, stat : StatOutcomes]

RECURSIVE GrowFiles(_)
GrowFiles(k) ==
    IF k = 0 THEN {<<>>}
    ELSE {Append(q[1], q[2]) :
             q \in {p \in GrowFiles(k - 1) \X FileChoices(k) :
                       IsDir(p[1], p[2].parent)}}

FileTrees == UNION {GrowFiles(size) : size \in 1..MaxEntries}

\* the extractor types of create_acl_extractor, chosen with --acl-extractor
Extractors == {"getfacl", "stat", "noop"}

InitFiles ==
    /\ manifest = <<>>
    /\ settings = [batch_size |-> 1, checkpoint_interval |-> 1,
                   max_retries |-> max_retries_default,
                   continue_on_error |-> TRUE, resume |-> FALSE]
    /\ InitIngestion
    /\ InitControl
    /\ InitCalls
    /\ tree \in FileTrees
    /\ walk = <<>>
    /\ emitted = <<>>
    /\ \E x \in Extractors :
          boot = [pc |-> "idle", exit_code |-> NULL, clock |-> 0, _batch |-> <<>>,
                  stats |-> BootstrapStats, call |-> NoCall, written |-> <<>>, error |-> NULL,
                  gave_up |-> {}, max_retries |-> walker_max_retries_default,
                  batch_size |-> MaxBatch, acl_extractor |-> x,
                  signalled |-> FALSE]

NextFiles ==
    \/ (\E listdir \in {"ok", "PermissionError", "OSError"} : WalkStart(listdir))
           /\ UNCHANGED <<controlVars, callVars>>
    \/ Scandir /\ UNCHANGED <<controlVars, callVars>>
    \/ Entry(TRUE) /\ UNCHANGED <<controlVars, callVars>>
    \/ Return /\ UNCHANGED <<controlVars, callVars>>

SpecFiles == InitFiles /\ [][NextFiles]_vars

\* ---- ACLExtractor.extract ------------------------------------------------------
ACLResult(raw_acl, captured, method) ==
    [raw_acl |-> raw_acl, captured |-> captured, method |-> method]

\* platform.system()
Systems == {"Linux", "Windows"}

\* asyncio.create_subprocess_exec("getfacl", ...)
ExecOutcomes == {"started", "FileNotFoundError", "Exception"}

\* what os.stat in the executor gives the caller: the fields, an OSError, no
\* answer within timeout_seconds, or another exception
StatReplies == {"info", "OSError", "timeout", "Exception"}

\* a stat path that reports every reply as captured
_try_stat_Captured(reply) ==
    ACLResult(IF reply = "info" THEN "stat json" ELSE NULL, TRUE, "stat")

\* GetfaclACLExtractor._try_stat and StatOnlyACLExtractor.extract: the JSON text
\* of the stat fields, or a result without ACL
_try_stat(reply) ==
    IF reply = "info"
    THEN ACLResult("stat json", TRUE, "stat")
    ELSE ACLResult(NULL, FALSE, "stat")

\* a task awaits extractor.extract(file_path, timeout_seconds)
ExtractCall(extractor, system) ==
    /\ extraction.pc \in {"idle", "returned"}
    /\ extraction' =
          [pc |-> CASE extractor = "noop" -> "returned"
                    [] extractor = "stat" -> "stat"
                    [] extractor = "getfacl" -> IF system = "Linux" THEN "exec" ELSE "stat",
           extractor |-> extractor, child |-> "none", returncode |-> NULL,
           result |-> IF extractor = "noop" THEN ACLResult(NULL, FALSE, "noop")
                      ELSE NoResult]

\* _try_getfacl: create_subprocess_exec; without a child the result is not
\* captured and extract falls back to _try_stat
SubprocessExec(outcome) ==
    /\ extraction.pc = "exec"
    /\ extraction' = IF outcome = "started"
                     THEN [extraction EXCEPT !.pc = "communicate", !.child = "running"]
                     ELSE [extraction EXCEPT !.pc = "stat"]

\* the child ends, by itself with returncode or by the SIGKILL of proc.kill(),
\* and the child watcher of the event loop reaps it
ChildExits(returncode) ==
    /\ extraction.child \in {"running", "killed"}
    /\ extraction' = [extraction EXCEPT !.child = "reaped",
                                        !.returncode = IF extraction.child = "killed"
                                                       THEN -9 ELSE returncode]

\* wait_for(proc.communicate()) returns: returncode 0 is the ACL text, another
\* returncode falls back to _try_stat
CommunicateReturns ==
    /\ extraction.pc = "communicate"
    /\ extraction.child = "reaped"
    /\ extraction' = IF extraction.returncode = 0
                     THEN [extraction EXCEPT !.pc = "returned",
                                             !.result = ACLResult("acl_text", TRUE, "getfacl")]
                     ELSE [extraction EXCEPT !.pc = "stat"]

\* "except asyncio.TimeoutError: proc.kill(); await proc.wait()"; on a child
\* that has just ended proc.kill() raises ProcessLookupError, caught as Exception
CommunicateTimeout ==
    /\ extraction.pc = "communicate"
    /\ extraction' = IF extraction.child = "running"
                     THEN [extraction EXCEPT !.pc = "wait", !.child = "killed"]
                     ELSE [extraction EXCEPT !.pc = "stat"]

\* proc.wait() returns after the timeout; extract falls back to _try_stat
ProcWaitReturns ==
    /\ extraction.pc = "wait"
    /\ extraction.child = "reaped"
    /\ extraction' = [extraction EXCEPT !.pc = "stat"]

TryStat(reply) ==
    /\ extraction.pc = "stat"
    /\ extraction' = [extraction EXCEPT !.pc = "returned", !.result = _try_stat(reply)]

\* the task awaiting extract is cancelled: CancelledError is raised at the
\* await in progress; it is no Exception, so no except clause of extract runs
Cancel ==
    /\ extraction.pc \in {"communicate", "wait", "stat"}
    /\ extraction' = [extraction EXCEPT !.pc = "cancelled"]

\* a tree of one entry, and no extraction in progress
InitExtract ==
    /\ manifest = <<>>
    /\ settings = [batch_size |-> 1, checkpoint_interval |-> 1,
                   max_retries |-> max_retries_default,
                   continue_on_error |-> TRUE, resume |-> FALSE]
    /\ InitIngestion
    /\ InitControl
    /\ InitCalls
    /\ tree \in Grow(1) \cup GrowFiles(1)
    /\ walk = <<>>
    /\ emitted = <<>>
    /\ boot = [pc |-> "idle", exit_code |-> NULL, clock |-> 0, _batch |-> <<>>,
               stats |-> BootstrapStats, call |-> NoCall, written |-> <<>>, error |-> NULL,
               gave_up |-> {}, max_retries |-> walker_max_retries_default,
               batch_size |-> MaxBatch, acl_extractor |-> "getfacl",
               signalled |-> FALSE]

extractFrame == <<ingestionVars, controlVars, bootstrapVars, polling>>

NextExtract ==
    \/ \E extractor \in Extractors, system \in Systems :
          ExtractCall(extractor, system) /\ UNCHANGED extractFrame
    \/ \E outcome \in ExecOutcomes : SubprocessExec(outcome) /\ UNCHANGED extractFrame
    \/ \E returncode \in {0, 1} : ChildExits(returncode) /\ UNCHANGED extractFrame
    \/ CommunicateReturns /\ UNCHANGED extractFrame
    \/ CommunicateTimeout /\ UNCHANGED extractFrame
    \/ ProcWaitReturns /\ UNCHANGED extractFrame
    \/ \E reply \in StatReplies : TryStat(reply) /\ UNCHANGED extractFrame
    \/ Cancel /\ UNCHANGED extractFrame
    \/ WalkStart("ok") /\ UNCHANGED <<controlVars, callVars>>
    \/ Scandir /\ UNCHANGED <<controlVars, callVars>>
    \/ Entry(TRUE) /\ UNCHANGED <<controlVars, callVars>>
    \/ Return /\ UNCHANGED <<controlVars, callVars>>

SpecExtract == InitExtract /\ [][NextExtract]_vars

\* bootstrap on the tree {a.txt, b/c.pdf, b/d -> a.txt}, all of it readable
InitScenario ==
    /\ manifest = <<>>
    /\ settings = [batch_size |-> 1, checkpoint_interval |-> 1,
                   max_retries |-> max_retries_default,
                   continue_on_error |-> TRUE, resume |-> FALSE]
    /\ InitIngestion
    /\ InitControl
    /\ InitCalls
    /\ tree = ScenarioTree
    /\ walk = <<>>
    /\ emitted = <<>>
    /\ \E n \in 1..MaxBatch :
          boot = [pc |-> "idle", exit_code |-> NULL, clock |-> 0, _batch |-> <<>>,
                  stats |-> BootstrapStats, call |-> NoCall, written |-> <<>>, error |-> NULL,
                  gave_up |-> {}, max_retries |-> walker_max_retries_default,
                  batch_size |-> n, acl_extractor |-> "getfacl",
                  signalled |-> FALSE]

\* the engine is started again on the same tree and the same manifest
BootstrapAgain ==
    /\ boot.pc \in {"done", "failed"}
    /\ boot.clock + 1 < MaxScans
    /\ boot' = [boot EXCEPT !.pc = "idle", !.exit_code = NULL, !.error = NULL,
                            !.clock = @ + 1, !.stats = BootstrapStats,
                            !._batch = <<>>, !.gave_up = {},
                            !.written = <<>>, !.signalled = FALSE]
    /\ walk' = <<>>
    /\ emitted' = <<>>
    /\ UNCHANGED <<manifest, tree>>
    /\ UNCHANGED ingestionLocals

\* SIGINT or SIGTERM arrives while the walk runs: the handler installed by
\* _setup (loop.add_signal_handler) sets _shutdown_event, which nothing awaits
\* or tests
_signal_handler ==
    /\ boot.pc = "walking"
    /\ ~boot.signalled
    /\ boot' = [boot EXCEPT !.signalled = TRUE]
    /\ UNCHANGED <<manifest, tree, walk, emitted>>
    /\ UNCHANGED ingestionLocals

NextScenario ==
    \/ RunnerRun /\ UNCHANGED <<controlVars, callVars>>
    \/ _signal_handler /\ UNCHANGED <<controlVars, callVars>>
    \/ BootstrapAgain /\ UNCHANGED <<controlVars, callVars>>
    \/ WalkStart("ok") /\ UNCHANGED <<controlVars, callVars>>
    \/ Scandir /\ UNCHANGED <<controlVars, callVars>>
    \/ Entry(TRUE) /\ UNCHANGED <<controlVars, callVars>>
    \/ Return /\ UNCHANGED <<controlVars, callVars>>

SpecScenario == InitScenario /\ [][NextScenario]_vars

\* ---- BatchProcessor.process_stream fed by any record stream -------------------
\* the longest stream
MaxStream == 3

\* the FileStatus values a record of the walker carries (PENDING is the
\* default of the dataclass and of no record that is yielded)
FileStatuses == {"discovered", "acl_failed", "permission_denied", "error", "skipped"}

\* a FileRecord of the stream; acl_captured is set with status discovered only
StreamRecord(p, status) ==
    [entry |-> p, file_path |-> p, status |-> status,
     error |-> IF status = "discovered" THEN NULL ELSE status,
     raw_acl |-> IF status = "discovered" THEN "acl" ELSE NULL,
     acl_captured |-> status = "discovered", is_directory |-> FALSE,
     last_seen |-> 1]

StreamRecords == {StreamRecord(p, status) : p \in 1..MaxRows, status \in FileStatuses}

\* process_stream has reset stats and _batch; the manifest is empty
InitStream ==
    /\ manifest = <<>>
    /\ settings = [batch_size |-> 1, checkpoint_interval |-> 1,
                   max_retries |-> max_retries_default,
                   continue_on_error |-> TRUE, resume |-> FALSE]
    /\ InitIngestion
    /\ InitControl
    /\ InitCalls
    /\ tree = NULL
    /\ walk = <<>>
    /\ emitted = <<>>
    /\ \E n \in 1..MaxBatch :
          boot = [pc |-> "walking", exit_code |-> NULL, clock |-> 0, _batch |-> <<>>,
                  stats |-> BootstrapStats, call |-> NoCall, written |-> <<>>,
                  error |-> NULL, batch_size |-> n]

\* the exception leaves process_stream ("except Exception: ... raise") and run
ProcessStreamRaises(b, error) == [b EXCEPT !.pc = "failed", !.exit_code = 1, !.error = error]

\* "async for record in record_stream: await self._process_record(record)"
StreamYield(record, f) ==
    /\ boot.pc = "walking"
    /\ Len(emitted) < MaxStream
    /\ LET res == _process_record(boot, manifest, record, f)
       IN  /\ boot' = IF res.raised THEN ProcessStreamRaises(res.boot, "DatabaseError")
                                     ELSE res.boot
           /\ manifest' = res.manifest
    /\ emitted' = Append(emitted, record)
    /\ UNCHANGED <<tree, walk>>
    /\ UNCHANGED ingestionLocals

\* the stream is exhausted: "if self._batch: await self._flush_batch()"
StreamExhausted(f) ==
    /\ boot.pc = "walking"
    /\ LET res == _flush_batch(boot, manifest, f)
       IN  /\ boot' = IF res.raised THEN ProcessStreamRaises(res.boot, "DatabaseError")
                                     ELSE [res.boot EXCEPT !.pc = "done", !.exit_code = 0]
           /\ manifest' = res.manifest
    /\ UNCHANGED <<tree, walk, emitted>>
    /\ UNCHANGED ingestionLocals

\* the generator raises: nothing is flushed
StreamThrows ==
    /\ boot.pc = "walking"
    /\ boot' = ProcessStreamRaises(boot, "RuntimeError")
    /\ UNCHANGED <<manifest, tree, walk, emitted>>
    /\ UNCHANGED ingestionLocals

NextStream ==
    \/ \E record \in StreamRecords, f \in BulkFaults :
          StreamYield(record, f) /\ UNCHANGED <<controlVars, callVars>>
    \/ \E f \in BulkFaults : StreamExhausted(f) /\ UNCHANGED <<controlVars, callVars>>
    \/ StreamThrows /\ UNCHANGED <<controlVars, callVars>>

SpecStream == InitStream /\ [][NextStream]_vars

\* ---- the process-control surface: ProcessManager -----------------------------
\* A request is one call of a router handler.  Its coroutine runs on the event
\* loop and gives way to the other coroutines only where it awaits: at the
\* lock, at create_subprocess_exec and at process.wait().
DbPaths == {"manifest.db", "other.db"}
Ops == {"start", "stop"}

\* POST /api/<engine>/start or /stop arrives
Request(op, engine, db_path) ==
    /\ Len(requests) < MaxRequests
    /\ requests' = Append(requests, [op |-> op, engine |-> engine, db_path |-> db_path,
                                      pc |-> "lock", result |-> NULL])
    /\ UNCHANGED <<pm, os_procs>>

\* "async with self._lock" lets a coroutine in when no other holds the lock
LockFree_Ignored(r) == TRUE

LockFree(r) == pm.lock = None

\* start_bootstrap / start_ingestion: the lock, then the check of status.running
StartEnter(r) ==
    /\ r \in DOMAIN requests
    /\ requests[r].op = "start" /\ requests[r].pc = "lock"
    /\ LockFree(r)
    /\ IF pm.running[requests[r].engine]
       THEN /\ requests' = [requests EXCEPT ![r].pc = "done",
                                              ![r].result = "RuntimeError"]
            /\ UNCHANGED pm
       ELSE /\ requests' = [requests EXCEPT ![r].pc = "spawn"]
            /\ pm' = [pm EXCEPT !.lock = r]
    /\ UNCHANGED os_procs

\* create_subprocess_exec returned: the status is set and the job id returned
Spawn(r) ==
    /\ r \in DOMAIN requests
    /\ requests[r].pc = "spawn"
    /\ os_procs' = os_procs \cup {[engine |-> requests[r].engine, pid |-> r,
                                    db_path |-> requests[r].db_path]}
    /\ pm' = [pm EXCEPT !.running[requests[r].engine] = TRUE,
                        !.process[requests[r].engine] = r,
                        !.job_id[requests[r].engine] = r,
                        !.lock = IF @ = r THEN None ELSE @]
    /\ requests' = [requests EXCEPT ![r].pc = "done", ![r].result = "job_id"]

\* create_subprocess_exec raised (the command cannot be run)
SpawnFails(r) ==
    /\ r \in DOMAIN requests
    /\ requests[r].pc = "spawn"
    /\ pm' = [pm EXCEPT !.lock = IF @ = r THEN None ELSE @]
    /\ requests' = [requests EXCEPT ![r].pc = "done", ![r].result = "Exception"]
    /\ UNCHANGED os_procs

\* stop_bootstrap / stop_ingestion: the lock, the check, SIGTERM to the process
StopEnter(r) ==
    /\ r \in DOMAIN requests
    /\ requests[r].op = "stop" /\ requests[r].pc = "lock"
    /\ LockFree(r)
    /\ IF ~pm.running[requests[r].engine]
       THEN /\ requests' = [requests EXCEPT ![r].pc = "done", ![r].result = "False"]
            /\ UNCHANGED pm
       ELSE /\ requests' = [requests EXCEPT ![r].pc = "wait"]
            /\ pm' = [pm EXCEPT !.lock = r]
    /\ UNCHANGED os_procs

\* process.wait() returned, after SIGTERM or after kill() on the timeout (or the
\* process was gone already): the status is reset and True returned
StopFinish(r) ==
    /\ r \in DOMAIN requests
    /\ requests[r].pc = "wait"
    /\ os_procs' = {q \in os_procs : q.pid # pm.process[requests[r].engine]}
    /\ pm' = [pm EXCEPT !.running[requests[r].engine] = FALSE,
                        !.job_id[requests[r].engine] = None,
                        !.lock = IF @ = r THEN None ELSE @]
    /\ requests' = [requests EXCEPT ![r].pc = "done", ![r].result = "True"]

\* a stop request has signalled the engine's process and waits for it
Signalled(e) ==
    \E r \in DOMAIN requests : requests[r].engine = e /\ requests[r].pc = "wait"

\* an engine subprocess ends; gone keeps the pids of those that ended on
\* their own, no stop request having signalled them
SubprocessExit(q) ==
    /\ q \in os_procs
    /\ os_procs' = os_procs \ {q}
    /\ pm' = [pm EXCEPT !.gone = IF Signalled(q.engine) /\ pm.process[q.engine] = q.pid
                                 THEN @ ELSE @ \cup {q.pid}]
    /\ UNCHANGED requests

\* returncode is not None
Returned(pid) == \A q \in os_procs : q.pid # pid

\* check_process_health, called by the API's background task
check_process_health ==
    /\ pm.lock = None
    /\ pm' = [pm EXCEPT !.running = [e \in Engines |->
                  IF pm.process[e] # None /\ pm.running[e] /\ Returned(pm.process[e])
                  THEN FALSE ELSE pm.running[e]]]
    /\ UNCHANGED <<os_procs, requests>>

NextControl ==
    \/ \E op \in Ops, engine \in Engines, db_path \in DbPaths :
          Request(op, engine, db_path) /\ UNCHANGED <<ingestionVars, bootstrapVars, callVars>>
    \/ \E r \in 1..MaxRequests : StartEnter(r) /\ UNCHANGED <<ingestionVars, bootstrapVars, callVars>>
    \/ \E r \in 1..MaxRequests : Spawn(r) /\ UNCHANGED <<ingestionVars, bootstrapVars, callVars>>
    \/ \E r \in 1..MaxRequests : SpawnFails(r) /\ UNCHANGED <<ingestionVars, bootstrapVars, callVars>>
    \/ \E r \in 1..MaxRequests : StopEnter(r) /\ UNCHANGED <<ingestionVars, bootstrapVars, callVars>>
    \/ \E r \in 1..MaxRequests : StopFinish(r) /\ UNCHANGED <<ingestionVars, bootstrapVars, callVars>>
    \/ \E q \in os_procs : SubprocessExit(q) /\ UNCHANGED <<ingestionVars, bootstrapVars, callVars>>
    \/ check_process_health /\ UNCHANGED <<ingestionVars, bootstrapVars, callVars>>

SpecControl == InitEngines /\ [][NextControl]_vars

\* ---- monitor_processes, the background task of the API -----------------------
\* the status check_process_health leaves
HealthChecked(p) ==
    [p EXCEPT !.running = [e \in Engines |->
         IF p.process[e] # None /\ p.running[e] /\ Returned(p.process[e])
         THEN FALSE ELSE p.running[e]]]

\* "if not status.running and status.job_id"
Completed(p, e) == ~p.running[e] /\ p.job_id[e] # None

\* send_event("<engine>:completed", {"job_id": ...}) is called
SendEvent(p, e) ==
    [p EXCEPT !.events = Append(@, [engine |-> e, job_id |-> p.job_id[e]]),
              !.monitor = e]

\* the ingestion half of the loop body (lines 47-50) up to its await
IngestionTurn(p) ==
    IF Completed(p, "ingestion") THEN SendEvent(p, "ingestion")
    ELSE [p EXCEPT !.monitor = "sleep"]

\* asyncio.sleep(2) is over and the lock is free: check_process_health, then
\* the loop body up to its first await of send_event
MonitorWakes ==
    /\ pm.monitor = "sleep"
    /\ pm.lock = None
    /\ LET p == HealthChecked(pm)
       IN  pm' = IF Completed(p, "bootstrap") THEN SendEvent(p, "bootstrap")
                 ELSE IngestionTurn(p)
    /\ UNCHANGED <<os_procs, requests>>

\* send_event has returned: "process_manager._<engine>_status.job_id = None" on
\* the status the manager holds now, then the rest of the loop body
SendReturns ==
    /\ pm.monitor \in Engines
    /\ pm' = IF pm.monitor = "bootstrap"
             THEN IngestionTurn([pm EXCEPT !.job_id["bootstrap"] = None])
             ELSE [pm EXCEPT !.job_id["ingestion"] = None, !.monitor = "sleep"]
    /\ UNCHANGED <<os_procs, requests>>

NextMonitor ==
    \/ \E op \in Ops, engine \in Engines, db_path \in {"manifest.db"} :
          Request(op, engine, db_path) /\ UNCHANGED <<ingestionVars, bootstrapVars, callVars>>
    \/ \E r \in 1..MaxRequests : StartEnter(r) /\ UNCHANGED <<ingestionVars, bootstrapVars, callVars>>
    \/ \E r \in 1..MaxRequests : Spawn(r) /\ UNCHANGED <<ingestionVars, bootstrapVars, callVars>>
    \/ \E r \in 1..MaxRequests : SpawnFails(r) /\ UNCHANGED <<ingestionVars, bootstrapVars, callVars>>
    \/ \E r \in 1..MaxRequests : StopEnter(r) /\ UNCHANGED <<ingestionVars, bootstrapVars, callVars>>
    \/ \E r \in 1..MaxRequests : StopFinish(r) /\ UNCHANGED <<ingestionVars, bootstrapVars, callVars>>
    \/ \E q \in os_procs : SubprocessExit(q) /\ UNCHANGED <<ingestionVars, bootstrapVars, callVars>>
    \/ MonitorWakes /\ UNCHANGED <<ingestionVars, bootstrapVars, callVars>>
    \/ SendReturns /\ UNCHANGED <<ingestionVars, bootstrapVars, callVars>>

SpecMonitor == InitEngines /\ [][NextMonitor]_vars

\* ---- properties ---------------------------------------------------------------
Discovered == {p \in Paths : manifest[p].status = "discovered"}

IngestionStatus(p) == manifest[p].ingestion_status

ExitedWith(code) == pc = "exited" /\ exit_code = code

\* C1: a run from offset 0 in which nothing failed (every file exists, every
\* upload and poll succeeds) returns with every eligible row completed.
C1_AllCompleted ==
    (ExitedWith(0) /\ hist.start_offset = 0 /\ stats.total_failed = 0)
        => \A p \in Discovered : IngestionStatus(p) = "completed"

\* C2: a row left ingesting by a killed process is fetched and retried by a
\* later run: when a later run from offset 0 has drained the pending rows, no
\* row is still ingesting.
C2_IngestingRetried ==
    (ExitedWith(0) /\ hist.prev_end = "killed" /\ hist.start_offset = 0
        /\ hist.loop_exit = "empty")
        => \A p \in Paths : IngestionStatus(p) # "ingesting"

\* C3: crash after batch 3 of 5 with a checkpoint after every batch; the resumed
\* run starts at offset 3 x batch_size and total_processed over the two runs is
\* the number of eligible rows.
C3_ResumeCompletes ==
    (/\ run_no = 2 /\ settings.resume /\ hist.prev_end = "killed"
     /\ hist.loaded.exists /\ hist.loaded.batch_num = CrashAfterBatch
     /\ Cardinality(Discovered) = TotalBatches * settings.batch_size
     /\ ExitedWith(0))
        => /\ hist.start_offset = CrashAfterBatch * settings.batch_size
           /\ hist.loaded.total_processed + stats.total_processed
                 = Cardinality(Discovered)

\* C4: when the server's document list holds the base name of every eligible
\* row, a run uploads nothing and ends with every eligible row completed by the
\* skip path.
C4_SkipAll ==
    (ExitedWith(0) /\ hist.start_offset = 0
        /\ \A p \in Discovered : FileName(p) \in existing_docs)
        => /\ ~hist.uploaded
           /\ \A p \in Discovered : IngestionStatus(p) = "completed"
           /\ stats.total_skipped = Cardinality(Discovered)

\* one change of a row's ingestion status; skip says whether the skip path
\* (straight to completed) is open to the row
StatusStep(old, new, skip) ==
    \/ new = old
    \/ old \in {"pending", "failed"} /\ new = "ingesting"
    \/ old = "ingesting" /\ new \in {"completed", "failed"}
    \/ skip /\ old \in {"pending", "failed"} /\ new = "completed"

\* C5 (as amended): every change of a row's ingestion status follows
\* pending -> ingesting -> {completed, failed} or failed -> ingesting, or takes a
\* pending or failed row whose base name is in the server's document list
\* straight to completed (the skip path); no row returns to pending.
C5_Transitions ==
    [][\A p \in Paths : StatusStep(IngestionStatus(p), manifest'[p].ingestion_status,
                                   FileName(p) \in existing_docs)]_vars

\* C5 (as claimed): no row goes to completed without passing through ingesting.
C5_Original ==
    [][\A p \in Paths : StatusStep(IngestionStatus(p), manifest'[p].ingestion_status,
                                   FALSE)]_vars

\* a row completed by its first update (the skip path), and a failed row that a
\* later run has marked ingesting again
C5_Witness ==
    /\ \E p \in Paths : IngestionStatus(p) = "completed"
                        /\ manifest[p].ingestion_attempts = 1
    /\ \E p \in Paths : IngestionStatus(p) = "ingesting"
                        /\ manifest[p].ingestion_attempts = 3

\* C6: ingested_at is non-null exactly when the ingestion status is completed,
\* after any sequence of update_ingestion_status calls.
C6_IngestedAtIffCompleted ==
    \A p \in Paths : (manifest[p].ingested_at # NULL) <=> (IngestionStatus(p) = "completed")

\* C7: when process_batch has returned, no record of the batch is ingesting; a
\* record not skipped and found on disk is completed if the upload and poll
\* succeeded and failed with the error string if they raised IngestionError; a
\* record not found on disk is failed and was not passed to upload_documents.
C7_BatchOutcome ==
    pc = "account" =>
        \A p \in Range(files) :
            /\ IngestionStatus(p) # "ingesting"
            /\ (FileName(p) \notin existing_docs /\ p \in hist.on_disk) =>
                  \/ /\ hist.outcome = "success"
                     /\ IngestionStatus(p) = "completed"
                  \/ /\ hist.outcome = "IngestionError"
                     /\ IngestionStatus(p) = "failed"
                     /\ manifest[p].ingestion_error = StrE
            /\ (FileName(p) \notin existing_docs /\ p \notin hist.on_disk) =>
                  /\ IngestionStatus(p) = "failed"
                  /\ manifest[p].ingestion_error = "File not found on disk"
                  /\ p \notin hist.upload_arg

\* a batch with a record missing on disk and a record whose upload failed
C7_Witness ==
    /\ pc = "account"
    /\ hist.outcome = "IngestionError"
    /\ \E p \in Range(files) : FileName(p) \notin existing_docs /\ p \notin hist.on_disk
    /\ \E p \in Range(files) : FileName(p) \notin existing_docs /\ p \in hist.on_disk

\* C8: a run that is interrupted or fails, short of being killed, leaves no row
\* at ingesting.
C8_NoIngestingLeft ==
    (pc = "exited" /\ exit_code \in {0, 1, 130})
        => \A p \in Paths : IngestionStatus(p) # "ingesting"

\* C9: on SIGINT or SIGTERM the runner exits with code 130 and the checkpoint
\* on disk holds the offset, batch number and counters of the batches completed.
C9_InterruptCheckpoint ==
    (pc = "exited" /\ (hist.end = "SIGINT" \/ exit_code = 128 + SignalNumber("SIGTERM")))
        => /\ exit_code = 130
           /\ checkpoint_file =
                 CheckpointData(current_offset, hist.start_batch + hist.batches_done,
                                stats.total_processed, stats.total_failed)

\* C10: after a run that ended on an empty batch, a run with --resume finds the
\* final checkpoint, fetches an empty first batch, uploads nothing and changes
\* no row.
C10_ResumeNoOp ==
    (run_no > 1 /\ settings.resume /\ hist.prev_end = "empty")
        => /\ hist.loaded.exists
           /\ pc \in {"fetch", "final", "exited"}
           /\ hist.batches_done = 0
           /\ ~hist.uploaded
           /\ manifest = hist.start_manifest

\* the resumed run has returned, and rows are still eligible (failed ones)
C10_Witness ==
    /\ run_no > 1 /\ settings.resume /\ hist.prev_end = "empty"
    /\ ExitedWith(0)
    /\ \E p \in Paths : PendingWhere(manifest[p])

\* a row the specification makes eligible for ingestion
Eligible(row) ==
    /\ row.status = "discovered"
    /\ row.is_directory = FALSE
    /\ row.ingestion_status \in {NULL, "pending", "failed"}

\* C11: get_pending_files returns exactly the slice [offset, offset + batch_size)
\* of the path-ordered rows that are discovered, not directories and null,
\* pending or failed; it returns no completed row and no directory row.
C11_PendingSlice ==
    pc = "queried" =>
        /\ files = LimitOffset(OrderByPath({p \in Paths : Eligible(manifest[p])}),
                               settings.batch_size, current_offset)
        /\ \A p \in Range(files) : /\ IngestionStatus(p) # "completed"
                                    /\ ~manifest[p].is_directory

\* C12: within one pass no path is returned by get_pending_files in more than
\* one batch, whatever the earlier batches' rows ended in and whatever rows are
\* inserted between two fetches.
C12_NoRefetch ==
    [][(pc = "fetch" /\ pc' = "filter") => Range(files') \cap hist.returned = {}]_vars

\* the subprocesses of an engine that are alive
Alive(e) == {q \in os_procs : q.engine = e}

\* C13: a bootstrap engine and an ingestion engine never run at the same time
\* on the same manifest.
C13_EnginesExclusive ==
    \A b \in Alive("bootstrap"), i \in Alive("ingestion") : b.db_path # i.db_path

\* a step by which request r returns
Returns(r) == r \in DOMAIN requests /\ requests[r].pc # "done" /\ requests'[r].pc = "done"

\* C14: at most one process of an engine is alive at a time; a start that finds
\* the engine running is rejected and launches nothing; a stop that finds the
\* engine not running returns false and changes nothing; after a stop that
\* returns true the engine is not running.
C14_StartStop ==
    /\ [](\A e \in Engines : Cardinality(Alive(e)) <= 1)
    /\ [][\A r \in 1..MaxRequests : Returns(r) =>
            LET e == requests[r].engine IN
            /\ (requests[r].op = "start" /\ pm.running[e]) =>
                  /\ requests'[r].result = "RuntimeError"
                  /\ os_procs' = os_procs /\ pm' = pm
            /\ (requests[r].op = "start" /\ requests'[r].result = "job_id") =>
                  /\ Alive(e) = {}
                  /\ pm'.running[e]
            /\ (requests[r].op = "stop" /\ requests[r].pc = "lock") =>
                  /\ ~pm.running[e]
                  /\ requests'[r].result = "False"
                  /\ os_procs' = os_procs /\ pm' = pm
            /\ (requests[r].op = "stop" /\ requests'[r].result = "True") =>
                  /\ ~pm'.running[e]
                  /\ {q \in os_procs' : q.engine = e} = {}]_vars

\* two start requests for one engine were in flight together, one launched the
\* engine and the other was rejected; a stop returned true and a stop returned false
C14_Witness ==
    /\ \E r1, r2 \in DOMAIN requests :
          /\ requests[r1].op = "start" /\ requests[r2].op = "start"
          /\ requests[r1].engine = requests[r2].engine
          /\ requests[r1].result = "job_id" /\ requests[r2].result = "RuntimeError"
    /\ \E r \in DOMAIN requests : requests[r].result \in {"True", "False"}

\* the paths presented to the last bulk_upsert call, and the rows it added
Presented == {boot.call.records[i].file_path : i \in 1..Len(boot.call.records)}

Added == DOMAIN manifest \ DOMAIN boot.call.before

C16_UpsertAtomic ==
    boot.call.made =>
        /\ boot.call.raised => manifest = boot.call.before
        /\ manifest = boot.call.before \/ Presented \subseteq DOMAIN manifest
        /\ ~boot.call.raised => boot.call.inserted <= Cardinality(Added)

\* C17: bulk_upsert leaves the ingestion fields of every existing row
\* unchanged; a row completed before the call is completed after it and is
\* not selected by get_pending_files.
C17_UpsertKeepsIngestion ==
    boot.call.made =>
        \A p \in DOMAIN boot.call.before :
            /\ manifest[p].ingestion_status = boot.call.before[p].ingestion_status
            /\ manifest[p].ingestion_attempts = boot.call.before[p].ingestion_attempts
            /\ manifest[p].ingestion_error = boot.call.before[p].ingestion_error
            /\ manifest[p].ingested_at = boot.call.before[p].ingested_at
            /\ boot.call.before[p].ingestion_status = "completed" =>
                  ~PendingWhere(manifest[p])

\* a completed row was presented again, under another observation
C17_Witness ==
    /\ boot.call.made /\ ~boot.call.raised
    /\ \E i \in 1..Len(boot.call.records) :
          LET rec == boot.call.records[i] IN
          /\ rec.file_path \in DOMAIN boot.call.before
          /\ boot.call.before[rec.file_path].ingestion_status = "completed"
          /\ rec.status # boot.call.before[rec.file_path].status

\* C18: on the tree {a.txt, b/c.pdf, b/d -> a.txt}, in every order of
\* enumeration, bootstrap ends with one row per observed path: the two files
\* with status discovered and a row keyed by the symlink's own path with
\* status skipped.
C18_ScenarioRows ==
    boot.pc \in {"done", "failed"} =>
        /\ DOMAIN manifest = {n \in DOMAIN tree : tree[n].kind # "dir"}
        /\ \A n \in DOMAIN manifest :
              manifest[n].status =
                  IF tree[n].kind = "symlink" THEN "skipped" ELSE "discovered"

\* the walker is at a symlink: the next turn of the entries loop handles it
AtSymlink ==
    /\ boot.pc = "walking" /\ walk # <<>> /\ Top.scanned /\ Top.entries # <<>>
    /\ tree[Head(Top.entries)].kind = "symlink"

\* C19: the walk never follows a symlink, whatever the tree: no directory a
\* symlink names is entered, and the turn that meets a symlink emits one
\* skipped record for it and goes on with the walk.
C19_SymlinkSkipped ==
    /\ [](\A i \in DOMAIN walk : IsDir(tree, walk[i].dir))
    /\ [][AtSymlink /\ walk' # walk =>
             /\ boot'.pc \in {"walking", "done"}
             /\ Len(walk') = Len(walk)
             /\ Len(emitted') = Len(emitted) + 1
             /\ emitted'[Len(emitted')].entry = Head(Top.entries)
             /\ emitted'[Len(emitted')].status = "skipped"]_vars

\* entry n is the directory d or lies below it
RECURSIVE AtOrBelow(_, _, _)
AtOrBelow(t, n, d) == n = d \/ (n # Root /\ AtOrBelow(t, t[n].parent, d))

\* the directories whose scan was given up
GaveUp == {g.dir : g \in boot.gave_up}

\* the walker is about to be told that a scandir failed
ScanFailing ==
    /\ boot.pc = "walking" /\ walk # <<>> /\ ~Top.scanned
    /\ walk' # walk
    /\ ~(Len(walk') = Len(walk) /\ walk'[Len(walk)].scanned)

AtFile ==
    /\ boot.pc = "walking" /\ walk # <<>> /\ Top.scanned /\ Top.entries # <<>>
    /\ tree[Head(Top.entries)].kind = "file"

\* the entries for which a record was emitted, with the number of records
RecordsFor(n) == {i \in DOMAIN emitted : emitted[i].entry = n}

C22_PermissionDeniedRecord ==
    [][(AtFile /\ walk' # walk /\ tree[Head(Top.entries)].stat = "PermissionError") =>
          /\ boot'.pc = "walking"
          /\ Len(emitted') = Len(emitted) + 1
          /\ emitted'[Len(emitted')].entry = Head(Top.entries)
          /\ emitted'[Len(emitted')].status = "permission_denied"]_vars

\* C23: the walker uses the configured ACL extractor: with the extractor noop
\* every file row of a finished walk has status acl_failed and raw_acl null,
\* and get_pending_files selects none of them.
C23_NoopExtractor ==
    (boot.acl_extractor = "noop" /\ boot.pc = "done" /\ boot.error = NULL) =>
        /\ \A n \in DOMAIN tree : tree[n].kind = "file" => n \in DOMAIN manifest
        /\ \A p \in DOMAIN manifest :
              /\ manifest[p].status = "acl_failed"
              /\ manifest[p].raw_acl = NULL
              /\ ~PendingWhere(manifest[p])

\* the root was there and could not be read
RootUnreadable == boot.error \in {"root_permission_denied", "OSError"}

C25_SignalExit ==
    /\ [](boot.signalled /\ boot.pc \in {"done", "failed"} =>
             /\ boot.exit_code = 130
             /\ \A i \in DOMAIN emitted : emitted[i].file_path \in DOMAIN manifest)
    /\ [][boot.signalled => emitted' = emitted]_vars

\* C26: in every manifest state bootstrap reaches, the per-status counters of
\* get_stats add up to its total.
C26_StatsSum ==
    LET st == get_stats(manifest)
    IN  st.discovered + st.permission_denied + st.acl_failed + st.errors = st.total

\* the runner loads the checkpoint: a step of RunnerResume with --resume
Loads == pc # "run" /\ pc' = "run" /\ settings'.resume

\* C30: load after a successful save returns the four values saved; load on a
\* missing file, on a file that is not JSON and on JSON that is no object
\* returns no checkpoint and raises nothing, and the run starts at offset 0 and
\* batch 0.
C30_CheckpointRoundTrip ==
    [][Loads =>
          /\ exit_code' = NoExitCode
          /\ hist.saved # NoCheckpoint =>
                /\ hist'.loaded # NoCheckpoint
                /\ hist'.loaded.offset = hist.saved.offset
                /\ hist'.loaded.batch_num = hist.saved.batch_num
                /\ hist'.loaded.total_processed = hist.saved.total_processed
                /\ hist'.loaded.total_failed = hist.saved.total_failed
          /\ (~checkpoint_file.exists \/ IsMalformed(checkpoint_file)) =>
                /\ hist'.loaded = NoCheckpoint
                /\ current_offset' = 0
                /\ current_batch' = 0]_vars

C30_Witness ==
    /\ pc = "run"
    /\ settings.resume
    /\ hist.none_loaded
    /\ hist.saved # NoCheckpoint
    /\ hist.loaded = hist.saved
    /\ current_offset = hist.saved.offset
    /\ current_offset > 0
    /\ current_batch = hist.saved.batch_num
    /\ current_batch > 0

\* acl_captured is true exactly when raw_acl is there
CapturedIffAcl(captured, raw_acl) == captured <=> raw_acl # NULL

\* C27: every result an extractor returns, every record the walker emits and
\* every manifest row has acl_captured = true if and only if raw_acl is non-null.
C27_CapturedIffRawAcl ==
    /\ extraction.pc = "returned" =>
          CapturedIffAcl(extraction.result.captured, extraction.result.raw_acl)
    /\ \A i \in DOMAIN emitted :
          CapturedIffAcl(emitted[i].acl_captured, emitted[i].raw_acl)
    /\ \A p \in DOMAIN manifest :
          CapturedIffAcl(manifest[p].acl_captured, manifest[p].raw_acl)

C27_Witness ==
    /\ extraction.pc = "returned"
    /\ extraction.result.method = "stat"
    /\ extraction.result.captured
    /\ extraction.extractor = "getfacl"
    /\ extraction.child = "reaped"
    /\ extraction.returncode = -9
    /\ manifest # <<>>

\* C28: when extract has returned or its task was cancelled, no child process
\* is left running or unreaped.
C28_NoChildLeft ==
    extraction.pc \in {"returned", "cancelled"} =>
        extraction.child \in {"none", "reaped"}

\* the uploaded files of the batch in hand are marked completed in this step
MarksBatchCompleted ==
    \E i \in DOMAIN existing_files :
        /\ manifest[existing_files[i]].ingestion_status # "completed"
        /\ manifest'[existing_files[i]].ingestion_status = "completed"

\* poll_task_status returns its status JSON in this step
PollReturns == pc = "poll" /\ pc' = "account" /\ hist'.outcome = "success"

\* poll_task_status raises IngestionError in this step
PollRaises == pc = "poll" /\ pc' = "account" /\ hist'.outcome = "IngestionError"

\* C29: poll_task_status returns only on state FINISHED; FAILED, UNKNOWN and a
\* body that is not JSON raise IngestionError; another state keeps the poll
\* going until the timeout; the uploaded batch is marked completed only by a
\* FINISHED poll or by an upload response without task id.
C29_PollOutcomes ==
    /\ [][PollReturns => polling'.state = "FINISHED"]_vars
    /\ [][(pc = "poll" /\ polling'.state \in {"FAILED", "UNKNOWN"}) => PollRaises]_vars
    /\ [][(pc = "poll" /\ polling' # polling /\ polling'.got = "response"
              /\ polling'.state \notin {"FINISHED", "FAILED", "UNKNOWN"}) =>
             IF polling'.timed_out THEN PollRaises ELSE pc' = "poll"]_vars
    /\ [][MarksBatchCompleted =>
             \/ PollReturns /\ polling'.state = "FINISHED"
             \/ pc = "upload" /\ pc' = "account" /\ hist'.outcome = "success"]_vars

C29_Witness ==
    /\ pc = "account"
    /\ polling.state = "FINISHED"
    /\ polling.retries > 1
    /\ hist.outcome = "success"
    /\ successful # <<>>
    /\ \A i \in DOMAIN successful : manifest[successful[i]].ingestion_status = "completed"

\* C40: a save that is cut short never destroys the checkpoint saved before:
\* when load finds a checkpoint before a step, it finds one after it.
C40_SaveKeepsCheckpoint ==
    [][load(checkpoint_file) # NoCheckpoint => load(checkpoint_file') # NoCheckpoint]_vars

\* C31: a run whose uploads and polls return terminates; the offset grows with
\* every non-empty batch; no row that failed in this pass is fetched again; a
\* run whose first batch is empty returns 0 and changes no row.
C31_RunTerminates ==
    /\ <>(pc = "exited")
    /\ [][pc = "account" /\ pc' # "account" => current_offset' > current_offset]_vars
    /\ [][pc = "fetch" /\ pc' = "filter" =>
             \A p \in Range(files') :
                 ~(p \in hist.returned /\ IngestionStatus(p) = "failed")]_vars
    /\ [](IF pc = "exited" /\ hist.loop_exit = "empty" /\ hist.batches_done = 0
           THEN exit_code = 0 /\ manifest = hist.start_manifest
           ELSE TRUE)

\* a run of two batches with a failed row has returned
C31_Witness ==
    /\ ExitedWith(0)
    /\ hist.batches_done >= 2
    /\ hist.loop_exit = "empty"
    /\ \E p \in hist.returned : IngestionStatus(p) = "failed"


\* the last attempt of _upload_with_retry has failed like the ones before it
AllAttemptsFailed ==
    /\ pc = "upload" /\ pc' # "upload"
    /\ attempt = settings.max_retries - 1
    /\ pc' # "poll" /\ hist'.outcome # "success"

\* C32: for one batch upload_documents is called at most max_retries times and
\* never again after a call that succeeded; a backoff of retry_delay * 2^attempt
\* is slept between attempts only, never after the last; when all max_retries
\* attempts fail every record of the batch found on disk is marked failed.
C32_UploadRetry ==
    /\ [](hist.calls <= settings.max_retries)
    /\ [][(pc = "poll" \/ hist.outcome = "success") => hist'.calls <= hist.calls]_vars
    /\ [](/\ Len(hist.sleeps) = (IF pc = "upload" \/ hist.calls = 0
                                 THEN hist.calls ELSE hist.calls - 1)
          /\ \A k \in 1..Len(hist.sleeps) : hist.sleeps[k] = retry_delay * 2^(k - 1))
    /\ [][AllAttemptsFailed =>
            \A p \in Range(existing_files) :
                manifest'[p].ingestion_status = "failed"]_vars

\* the parts of C32 on the number of calls and on the backoff
C32_CallsAndBackoff ==
    /\ [](hist.calls <= settings.max_retries)
    /\ [][(pc = "poll" \/ hist.outcome = "success") => hist'.calls <= hist.calls]_vars
    /\ [](/\ Len(hist.sleeps) = (IF pc = "upload" \/ hist.calls = 0
                                 THEN hist.calls ELSE hist.calls - 1)
          /\ \A k \in 1..Len(hist.sleeps) : hist.sleeps[k] = retry_delay * 2^(k - 1))

\* C33: poll_task_status terminates under every sequence of answers; transport
\* errors are retried at most 10 times; the time from start_time to the end of
\* the call never exceeds poll_timeout by more than one poll interval.
C33_PollBounded ==
    /\ (pc = "poll") ~> (pc # "poll")
    /\ [](polling.retries - 1 <= poll_retries_limit)
    /\ [](polling.elapsed <= PollTimeout + 1)

\* the parts of C33 on termination and on the number of retries
C33_TerminatesAndRetries ==
    /\ (pc = "poll") ~> (pc # "poll")
    /\ [](polling.retries - 1 <= poll_retries_limit)

\* the poll intervals a call can last: the timeout is tested only after a
\* reply, before the sleep and the next GET, and never in the except branch
C33_WaitBound ==
    polling.elapsed <= PollTimeout + 1 + MaxTook + poll_retries_limit * (1 + MaxTook)

\* a checkpoint is written by this step
Persisted == checkpoint_file' # checkpoint_file

\* C34: after each batch the offset advances by the number of rows fetched and
\* a checkpoint is persisted exactly when the batch number is a multiple of
\* checkpoint_interval; every persisted checkpoint has offset = start offset +
\* total_processed and total_failed <= total_processed; the offsets of the
\* checkpoints of one run never decrease.
C34_CheckpointAccounting ==
    /\ [][pc = "account" /\ pc' \in {"fetch", "final"} =>
            /\ current_offset' = current_offset + Len(files)
            /\ Persisted <=> current_batch % settings.checkpoint_interval = 0]_vars
    /\ [][Persisted /\ pc # "idle" /\ pc # "exited" =>
            /\ checkpoint_file'.offset =
                  hist.start_offset + checkpoint_file'.total_processed
            /\ checkpoint_file'.total_failed <= checkpoint_file'.total_processed]_vars
    /\ [][Persisted /\ pc # "idle" /\ pc # "exited" /\ checkpoint_file.exists
             /\ hist.batches_done > 0 =>
            checkpoint_file'.offset >= checkpoint_file.offset]_vars

\* the batches handed to bulk_upsert, one after the other
RECURSIVE Concat(_)
Concat(batches) ==
    IF batches = <<>> THEN <<>> ELSE Head(batches) \o Concat(Tail(batches))

\* C35: the buffer never holds more than batch_size records; when
\* process_stream returns normally the records handed to bulk_upsert are the
\* records yielded, each once and in arrival order, the last partial batch
\* included; when a flush fails the run ends with the error and no batch is
\* written after it.
C35_BatchesInOrder ==
    /\ [](Len(boot._batch) <= boot.batch_size)
    /\ [](boot.pc = "done" => Concat(boot.written) = emitted)
    /\ [](\A i \in DOMAIN boot.written : Len(boot.written[i]) <= boot.batch_size)
    /\ [][boot.pc = "failed" => boot'.written = boot.written /\ manifest' = manifest]_vars
    /\ [][boot.pc = "walking" /\ boot'.error = "DatabaseError" =>
             boot'.pc = "failed" /\ boot'.exit_code = 1]_vars

\* a stream of three records, written as a full batch and a partial one
C35_Witness ==
    /\ boot.pc = "done" /\ boot.batch_size = 2
    /\ Len(emitted) = 3 /\ Len(boot.written) = 2
    /\ Len(boot.written[2]) = 1

\* the four counters of "Update stats based on status"
Counters == {"acl_captured", "acl_failed", "permission_errors", "other_errors"}

\* the stream of the scenario tree {a.txt, b/c.pdf, b/d -> a.txt} as the
\* specification describes it: two files with their ACL, one symlink skipped
ScenarioStream ==
    /\ Len(emitted) = 3
    /\ Cardinality({i \in DOMAIN emitted : emitted[i].status = "discovered"}) = 2
    /\ Cardinality({i \in DOMAIN emitted : emitted[i].status = "skipped"}) = 1

\* C36: every record consumed adds one to total_discovered and to exactly one
\* of acl_captured, acl_failed, permission_errors, other_errors; a record of
\* status skipped adds to other_errors; the stream of the scenario tree ends
\* with total_discovered = 3, acl_captured = 2, other_errors = 1.
C36_RecordCounted ==
    /\ [][emitted' # emitted =>
            LET record == emitted'[Len(emitted')]
            IN  /\ boot'.stats.total_discovered = boot.stats.total_discovered + 1
                /\ \E c \in Counters :
                      /\ boot'.stats[c] = boot.stats[c] + 1
                      /\ \A d \in Counters \ {c} : boot'.stats[d] = boot.stats[d]
                /\ record.status = "skipped" =>
                      boot'.stats.other_errors = boot.stats.other_errors + 1]_vars
    /\ [](boot.pc = "done" /\ ScenarioStream =>
            /\ boot.stats.total_discovered = 3
            /\ boot.stats.acl_captured = 2
            /\ boot.stats.other_errors = 1)

\* the part of C36 that the classification satisfies
C36_OneCounter ==
    [][emitted' # emitted =>
         /\ boot'.stats.total_discovered = boot.stats.total_discovered + 1
         /\ \E c \in Counters :
               /\ boot'.stats[c] = boot.stats[c] + 1
               /\ \A d \in Counters \ {c} : boot'.stats[d] = boot.stats[d]]_vars

\* C37: a row is marked completed after an upload only if the server did not
\* list its document in failed_documents of the FINISHED task.
C37_FailedDocumentNotCompleted ==
    [][PollReturns =>
         \A p \in polling'.failed_documents :
             manifest'[p].ingestion_status # "completed"]_vars

\* the files whose documents the server holds when it lists one document per
\* name: the file at the even path of each listed name
Held == {p \in Paths : FileName(p) \in existing_docs /\ p % 2 = 0}

\* the row was completed without a step through ingesting: one call of
\* update_ingestion_status on a row that no run had touched
SkipCompleted(p) ==
    IngestionStatus(p) = "completed" /\ manifest[p].ingestion_attempts = 1

\* C38: the skip path marks a row completed only if the server holds the
\* document of that same file; two rows of one base name in two directories
\* are never both completed by the skip path when the server holds one.
C38_SkipSameFile ==
    /\ [][pc = "filter" =>
            \A p \in Paths :
                (manifest'[p].ingestion_status = "completed"
                   /\ manifest[p].ingestion_status # "completed") => p \in Held]_vars
    /\ [](\A p, q \in Paths :
             (p # q /\ FileName(p) = FileName(q) /\ SkipCompleted(p) /\ SkipCompleted(q))
                => (p \in Held /\ q \in Held))

\* the completed events sent for job j of engine e
EventsOf(e, j) ==
    {i \in DOMAIN pm.events : pm.events[i].engine = e /\ pm.events[i].job_id = j}

\* C39: under every interleaving of start and stop requests with the monitor
\* loop, an engine whose status has running = true has the job id of the start
\* call that launched its process; no job has two completed events, and the id
\* of a job that ended on its own is not dropped before its event is sent.
C39_JobIdAndEvents ==
    /\ [](\A e \in Engines :
             pm.running[e] => pm.job_id[e] # None /\ pm.job_id[e] = pm.process[e])
    /\ [](\A e \in Engines, j \in 1..MaxRequests : Cardinality(EventsOf(e, j)) <= 1)
    /\ [][\A e \in Engines :
             (pm.job_id[e] # None /\ pm'.job_id[e] # pm.job_id[e]
                /\ pm.job_id[e] \in pm.gone)
             => \E i \in DOMAIN pm'.events :
                   pm'.events[i] = [engine |-> e, job_id |-> pm.job_id[e]]]_vars

\* the two parts of C39 on the completed events
C39_Events ==
    /\ [](\A e \in Engines, j \in 1..MaxRequests : Cardinality(EventsOf(e, j)) <= 1)
    /\ [][\A e \in Engines :
             (pm.job_id[e] # None /\ pm'.job_id[e] # pm.job_id[e]
                /\ pm.job_id[e] \in pm.gone)
             => \E i \in DOMAIN pm'.events :
                   pm'.events[i] = [engine |-> e, job_id |-> pm.job_id[e]]]_vars

\* the part of C39 on the job id of a running engine
C39_RunningHasJobId ==
    \A e \in Engines :
        pm.running[e] => pm.job_id[e] # None /\ pm.job_id[e] = pm.process[e]

============================================================================
